---- MODULE Spec2Model ----
(***************************************************************************)
(* s3path: the configuration resolution map (accessor._S3ConfigurationMap) *)
(* and the pattern selector (current_version._Selector) as state machines. *)
(*                                                                         *)
(* Spec      one-at-a-time register / resolve calls on the process-wide    *)
(*           configuration map                                             *)
(* SpecConc  the same calls issued by several threads, interleaved at the  *)
(*           granularity of the statements of the handlers                 *)
(* SpecGlob  one glob / rglob call over a bucket's key set, the remote     *)
(*           returning keys page by page in any order                      *)
(* SpecPath  one string made a PureS3Path, then str, bucket, key and the   *)
(*           URI forms taken of it                                         *)
(* SpecOps   one S3Path operation on a relative or an absolute path over a *)
(*           bucket that exists or not, iterdir page by page               *)
(* SpecDeep  one glob call of the single-file module (s3path.py), whose    *)
(*           selector remembers yielded levels in a _DeepDirCache          *)
(* SpecList  one listing, iterdir or glob, consumed to its end             *)
(* SpecStream one glob whose consumer may stop at any yielded path         *)
(* SpecCall  the remote calls of one operation on a path that has          *)
(*           parameters registered                                         *)
(***************************************************************************)
EXTENDS Integers, Sequences, FiniteSets, TLC

\* ------------------------------------------------------------------------
\* Bounds
\* ------------------------------------------------------------------------
MaxRegs == 2       \* register calls in one behaviour of Spec
NThreads == 2      \* threads of SpecConc
MaxCalls == 3      \* calls the threads of SpecConc make, all together
MaxKeys == 2       \* keys in the bucket of SpecGlob and of SpecOps
PageSize == 2      \* entries the remote returns in one page
MaxSegs == 4       \* segments of the strings of SpecPath
DeepKeys == 3      \* keys in the bucket of SpecDeep and of SpecStream
MaxPages == 4      \* requests one listing sends

\* Python values are tagged pairs so that any two of them can be compared.
None == <<"None", 0>>

\* ------------------------------------------------------------------------
\* Configuration map: values
\* ------------------------------------------------------------------------
Deep == <<"A", "B", "C">>

\* Absolute paths, as the tuple of their segments below the root "/":
\* "/", "/A", "/A/B" and "/A/B/C".
CfgPaths == {SubSeq(Deep, 1, k) : k \in 0..Len(Deep)}

RootName == <<>>

DefaultResource == <<"resource", 0>>
Handles == {<<"resource", 1>>}
EmptyArguments == <<"dict", 0>>
ArgDicts == {EmptyArguments, <<"dict", 1>>}
NewAlgorithm == <<"glob_new_algorithm", 1>>

EmptyMap == [x \in {} |-> None]

\* dict[key] = value
DictSet(d, k, v) == [x \in (DOMAIN d) \cup {k} |-> IF x = k THEN v ELSE d[x]]

VARIABLES
    is_setup,         \* _S3ConfigurationMap.is_setup
    resources,        \* _S3ConfigurationMap.resources: None or path name -> handle
    arguments,        \* _S3ConfigurationMap.arguments: None or path name -> dict
    general_options,  \* _S3ConfigurationMap.general_options
    setup_lock,       \* _S3ConfigurationMap.setup_lock: 0 free, else the holder
    cache,            \* the lru_cache of get_configuration: path -> result
    setup_runs,       \* times the body of _delayed_setup ran
    last,             \* the call that returned last and what it returned
    regs,             \* register calls made so far
    cleared,          \* paths whose memoized result the last registration made stale
    tpc,              \* SpecConc: the statement each thread is at
    tcall,            \* SpecConc: the locals of each thread's call
    tdone,            \* SpecConc: calls started so far
    tret,             \* SpecConc: what each thread's last call returned
    written,          \* SpecConc: the dictionary entries registrations have stored
    g_store,          \* SpecGlob, SpecOps: the keys of the bucket
    g_pc,             \* SpecGlob: where the glob call is
    g_in,             \* SpecGlob: the call: glob or rglob, the base's key, the pattern
    g_err,            \* SpecGlob: the error the call raised
    g_sel,            \* SpecGlob: the fields of the _Selector
    g_rest,           \* SpecGlob: listing entries the remote has not returned yet
    g_page,           \* SpecGlob: entries of the current page not yet consumed
    g_more,           \* SpecGlob: IsTruncated of the current page
    g_cache,          \* SpecGlob: `cache` of _deep_cached_dir_scan
    g_out,            \* SpecGlob: the paths yielded so far, in order
    g_lists,          \* SpecGlob: list_objects_v2 requests made so far
    p_pc,             \* SpecPath: the operation applied last
    p_arg,            \* SpecPath: the string the path is constructed from
    p_path,           \* SpecPath: PureS3Path(p_arg)
    p_str,            \* SpecPath: str(p_path)
    p_again,          \* SpecPath: PureS3Path(str(p_path))
    p_bk,             \* SpecPath: p_path.bucket and p_path.key
    p_uri,            \* SpecPath: p_path.as_uri()
    p_back,           \* SpecPath: PureS3Path.from_uri(p_path.as_uri())
    p_uri2,           \* SpecPath: as_uri() of p_back
    o_bucket,         \* SpecOps: whether the bucket exists
    o_pc,             \* SpecOps: where the operation is
    o_call,           \* SpecOps: the operation, the path it is invoked on, its argument
    o_ret,            \* SpecOps: the error it raised or the value it returned
    o_remote,         \* SpecOps: requests it sent to the remote
    o_before,         \* SpecOps: the bucket and its keys when it was invoked
    o_rest,           \* SpecOps: listing entries the remote has not returned yet
    o_page,           \* SpecOps: entries of the current page not yet consumed
    o_more,           \* SpecOps: IsTruncated of the current page
    o_out,            \* SpecOps: the paths iterdir yielded so far, in order
    l_token,          \* a listing: continuation_token of the loop that requests pages
    l_log,            \* a listing: the token sent with each request and the page it got
    l_keys,           \* a listing: the entries it has yielded so far, in order
    c_config,         \* SpecCall: the parameters registered for the path, name -> value
    c_pc,             \* SpecCall: the operation that ran
    c_sent            \* SpecCall: the remote calls it made, with what was sent

cfgVars == <<is_setup, resources, arguments, general_options, setup_lock, cache,
             setup_runs, last, regs, cleared>>
thrVars == <<tpc, tcall, tdone, tret, written>>
globVars == <<g_store, g_pc, g_in, g_err, g_sel, g_rest, g_page, g_more, g_cache, g_out,
              g_lists>>
pathVars == <<p_pc, p_arg, p_path, p_str, p_again, p_bk, p_uri, p_back, p_uri2>>
\* the state of the specifications that came after Spec, SpecConc and SpecGlob
opVars == <<o_bucket, o_pc, o_call, o_ret, o_remote, o_before, o_rest, o_page, o_more, o_out>>
listVars == <<l_token, l_log, l_keys>>
callVars == <<c_config, c_pc, c_sent>>
extraVars == <<pathVars, opVars, listVars, callVars>>
vars == <<cfgVars, thrVars, globVars, extraVars>>

\* ------------------------------------------------------------------------
\* Configuration map: the code of _S3ConfigurationMap
\* ------------------------------------------------------------------------

\* str(path): the dictionary key of a path
PathName(path) == path

\* the same list walked from the root downwards
ChainRootFirst(path) == [i \in 1..(Len(path) + 1) |-> SubSeq(path, 1, i - 1)]

\* chain([path], path.parents): the path, then its ancestors, nearest first
Chain(path) == [i \in 1..(Len(path) + 1) |-> SubSeq(path, 1, Len(path) + 1 - i)]

\* `if not self.is_setup`
NeedSetup(flag) == ~flag

\* a lock that never excludes anybody
LockIgnored(l) == TRUE

\* `with self.setup_lock`: the lock can be taken
LockFree(l) == l = 0

\* the three dictionaries _delayed_setup builds
SetupArguments == DictSet(EmptyMap, PathName(RootName), EmptyArguments)
SetupResources == DictSet(EmptyMap, PathName(RootName), DefaultResource)
SetupOptions == DictSet(EmptyMap, PathName(RootName), NewAlgorithm)

\* the assignment without its `is not None` guard
StoreAlways(d, name, value) == DictSet(d, name, value)

\* `if value is not None: self.<dict>[path_name] = value`
StoreIfGiven(d, name, value) == IF value # None THEN DictSet(d, name, value) ELSE d

\* a registration that leaves the memo alone
CacheKeep(c) == c

\* get_configuration.cache_clear()
CacheClear(c) == EmptyMap

\* the lru_cache wrapper keeps a result unless the key was filled meanwhile
CachePut(c, path, result) == IF path \in DOMAIN c THEN c ELSE DictSet(c, path, result)

\* one pass of the loop body of get_configuration, first `if`
StepResources(acc, name, res_map) ==
    IF acc[1] = None /\ name \in DOMAIN res_map
    THEN <<res_map[name], acc[2]>> ELSE acc

\* one pass of the loop body of get_configuration, second `if`
StepArguments(acc, name, arg_map) ==
    IF acc[2] = None /\ name \in DOMAIN arg_map
    THEN <<acc[1], arg_map[name]>> ELSE acc

RECURSIVE WalkFrom(_, _, _, _, _)
WalkFrom(chain, i, acc, res_map, arg_map) ==
    IF i > Len(chain) THEN acc
    ELSE WalkFrom(chain, i + 1,
                  StepArguments(StepResources(acc, PathName(chain[i]), res_map),
                                PathName(chain[i]), arg_map),
                  res_map, arg_map)

\* the body of get_configuration after the setup
Walk(path, res_map, arg_map) == WalkFrom(Chain(path), 1, <<None, None>>, res_map, arg_map)

\* register_configuration_parameter: the argument check
RegisterError(r, a, g) == IF a = None /\ r = None /\ g = None THEN "ValueError" ELSE "ok"

\* a relative PureS3Path: its name does not start at the root, so it is the
\* name of no absolute path
RelPaths == {<<"relative", "A">>}

\* a path object of another class, such as pathlib.Path('/')
ForeignPaths == {<<"pathlib.Path">>}

PathKind(path) ==
    IF path \in ForeignPaths THEN "foreign"
    ELSE IF path \in RelPaths THEN "relative"
    ELSE "absolute"

\* a check that lets every object through
AnyObjectIsPath(path) == TRUE

\* `isinstance(path, PureS3Path)`
IsPureS3Path(path) == path \notin ForeignPaths

\* register_configuration_parameter: the checks, in their order
RegisterOutcome(path, r, a, g) ==
    IF ~IsPureS3Path(path) THEN "TypeError" ELSE RegisterError(r, a, g)

\* ------------------------------------------------------------------------
\* Spec: register and resolve calls, one at a time
\* ------------------------------------------------------------------------
CfgInit ==
    /\ is_setup = FALSE
    /\ resources = None
    /\ arguments = None
    /\ general_options = None
    /\ setup_lock = 0
    /\ cache = EmptyMap
    /\ setup_runs = 0
    /\ last = [op |-> "none"]
    /\ regs = 0
    /\ cleared = {}

ThrInit ==
    /\ tpc = [t \in 1..NThreads |-> "idle"]
    /\ tcall = [t \in 1..NThreads |-> [op |-> "none"]]
    /\ tdone = 0
    /\ tret = [t \in 1..NThreads |-> [op |-> "none"]]
    /\ written = {}

\* no glob call
GlobIdle ==
    /\ g_pc = "idle"
    /\ g_in = [api |-> "none"]
    /\ g_err = "none"
    /\ g_sel = [prefix |-> <<>>]
    /\ g_rest = {}
    /\ g_page = {}
    /\ g_more = FALSE
    /\ g_cache = {}
    /\ g_out = <<>>
    /\ g_lists = 0

\* no path under construction
PathIdle ==
    /\ p_pc = "idle"
    /\ p_arg = <<>>
    /\ p_path = None
    /\ p_str = None
    /\ p_again = None
    /\ p_bk = None
    /\ p_uri = None
    /\ p_back = None
    /\ p_uri2 = None

\* no operation invoked; the bucket of SpecGlob exists
OpIdle ==
    /\ o_bucket = TRUE
    /\ o_pc = "idle"
    /\ o_call = None
    /\ o_ret = None
    /\ o_remote = 0
    /\ o_before = None
    /\ o_rest = {}
    /\ o_page = {}
    /\ o_more = FALSE
    /\ o_out = <<>>

\* continuation_token = None
NoToken == [set |-> FALSE, rest |-> {}]

\* no request sent
ListIdle ==
    /\ l_token = NoToken
    /\ l_log = <<>>
    /\ l_keys = <<>>

CallIdle ==
    /\ c_config = EmptyMap
    /\ c_pc = "idle"
    /\ c_sent = <<>>

ExtraIdle == PathIdle /\ OpIdle /\ ListIdle /\ CallIdle

Init == CfgInit /\ ThrInit /\ GlobIdle /\ g_store = {} /\ ExtraIdle

\* the maps _delayed_setup leaves behind
AfterSetupRes == IF NeedSetup(is_setup) THEN SetupResources ELSE resources
AfterSetupArgs == IF NeedSetup(is_setup) THEN SetupArguments ELSE arguments
AfterSetupOpts == IF NeedSetup(is_setup) THEN SetupOptions ELSE general_options

\* _delayed_setup, run by one caller with nobody else around
DelayedSetup ==
    /\ LockFree(setup_lock)
    /\ is_setup' = TRUE
    /\ setup_runs' = IF NeedSetup(is_setup) THEN setup_runs + 1 ELSE setup_runs
    /\ UNCHANGED setup_lock

\* register_configuration_parameter -> set_configuration
Register(path, r, a, g) ==
    /\ regs < MaxRegs
    /\ regs' = regs + 1
    /\ IF RegisterOutcome(path, r, a, g) # "ok"
       THEN /\ last' = [op |-> "register", error |-> RegisterOutcome(path, r, a, g),
                        kind |-> PathKind(path)]
            /\ UNCHANGED <<is_setup, resources, arguments, general_options,
                           setup_lock, cache, setup_runs, cleared>>
       ELSE /\ DelayedSetup
            /\ arguments' = StoreIfGiven(AfterSetupArgs, PathName(path), a)
            /\ resources' = StoreIfGiven(AfterSetupRes, PathName(path), r)
            /\ general_options' = StoreIfGiven(AfterSetupOpts, PathName(path), g)
            /\ cache' = CacheClear(cache)
            /\ cleared' = {p \in DOMAIN cache : cache[p] # Walk(p, resources', arguments')}
            /\ last' = [op |-> "register", error |-> "ok", kind |-> PathKind(path)]
    /\ UNCHANGED <<thrVars, globVars, extraVars>>

\* get_configuration behind its lru_cache
ResolveBody(path) ==
    /\ IF path \in DOMAIN cache
       THEN /\ last' = [op |-> "get", path |-> path, result |-> cache[path]]
            /\ UNCHANGED <<is_setup, resources, arguments, general_options,
                           setup_lock, cache, setup_runs>>
       ELSE /\ DelayedSetup
            /\ arguments' = AfterSetupArgs
            /\ resources' = AfterSetupRes
            /\ general_options' = AfterSetupOpts
            /\ cache' = CachePut(cache, path, Walk(path, resources', arguments'))
            /\ last' = [op |-> "get", path |-> path,
                        result |-> Walk(path, resources', arguments')]
    /\ UNCHANGED <<regs, cleared, thrVars>>

\* what a caller passes as (resource, parameters, glob_new_algorithm)
RegInputs ==
    {<<r, a, None>> : r \in Handles \cup {None}, a \in ArgDicts \cup {None}}
        \cup {<<None, None, NewAlgorithm>>}

\* what is passed together with a relative path or with a foreign object
OtherRegInputs == {<<h, d, None>> : h \in Handles, d \in ArgDicts \ {EmptyArguments}}

RegisterCall ==
    \/ \E path \in CfgPaths, in \in RegInputs : Register(path, in[1], in[2], in[3])
    \/ \E path \in RelPaths \cup ForeignPaths, in \in OtherRegInputs :
           Register(path, in[1], in[2], in[3])

ResolveCall == \E path \in CfgPaths : ResolveBody(path) /\ UNCHANGED <<globVars, extraVars>>

Next == RegisterCall \/ ResolveCall

Spec == Init /\ [][Next]_vars

\* ------------------------------------------------------------------------
\* Claims on Spec
\* ------------------------------------------------------------------------
Prefix(path, k) == SubSeq(path, 1, k)

\* the longest prefix of path (path included) that is a key of map
NearestWith(path, map) ==
    Prefix(path, CHOOSE k \in 0..Len(path) :
                     /\ PathName(Prefix(path, k)) \in DOMAIN map
                     /\ \A j \in (k + 1)..Len(path) : PathName(Prefix(path, j)) \notin DOMAIN map)

\* C1: a resolve returns the handle registered at the nearest ancestor-or-self
\* prefix that has a handle and, independently, the arguments registered at
\* the nearest ancestor-or-self prefix that has arguments.
C1_NearestAncestor ==
    last.op = "get" =>
        /\ last.result[1] = resources[PathName(NearestWith(last.path, resources))]
        /\ last.result[2] = arguments[PathName(NearestWith(last.path, arguments))]

\* arguments at /A, a handle at /A/B, and /A/B/C resolved from the two
C1_Witness ==
    /\ last.op = "get"
    /\ last.path = Prefix(Deep, 3)
    /\ NearestWith(last.path, resources) = Prefix(Deep, 2)
    /\ NearestWith(last.path, arguments) = Prefix(Deep, 1)
    /\ last.result[1] \in Handles
    /\ last.result[2] # EmptyArguments

\* C2: calls made one at a time: every memoized result, and the result a
\* resolve just returned, is what a fresh ancestor walk over the current
\* maps returns.
C2_MemoIsFresh ==
    /\ \A p \in DOMAIN cache : cache[p] = Walk(p, resources, arguments)
    /\ last.op = "get" => last.result = Walk(last.path, resources, arguments)

\* a path whose memoized result a registration made stale is resolved again
C2_Witness ==
    /\ last.op = "get"
    /\ last.path \in cleared
    /\ last.path \in DOMAIN cache

C18_RelativeRejected ==
    [][(last'.op = "register" /\ regs' = regs + 1 /\ last'.kind = "relative")
          => (last'.error = "TypeError" /\ UNCHANGED <<resources, arguments, general_options>>)]_vars

\* C18 amended: registering with an object that is not a PureS3Path fails
\* with TypeError and stores nothing; a relative PureS3Path is not rejected
\* for being relative.
C18_ForeignRejected ==
    [][(last'.op = "register" /\ regs' = regs + 1)
          => /\ last'.kind = "foreign"
                  => (last'.error = "TypeError"
                        /\ UNCHANGED <<is_setup, resources, arguments, general_options, cache>>)
             /\ last'.kind = "relative" => last'.error = "ok"]_vars

\* a foreign object was rejected when the maps were set up already, and a
\* relative path has an entry of its own
C18_Witness ==
    /\ is_setup
    /\ last.op = "register"
    /\ last.kind = "foreign"
    /\ last.error = "TypeError"
    /\ \E path \in RelPaths : PathName(path) \in DOMAIN resources

\* ------------------------------------------------------------------------
\* SpecConc: the same calls from several threads.  One step is one statement
\* of set_configuration, get_configuration or _delayed_setup; the lookup and
\* the store of the lru_cache wrapper are steps of their own around the body.
\* ------------------------------------------------------------------------
Threads == 1..NThreads

ConcPaths == {Prefix(Deep, k) : k \in 0..1}

ConcRegInputs == {<<<<"resource", 1>>, <<"dict", 1>>, None>>}

NoCall == [op |-> "none"]

seqVars == <<last, regs, cleared, globVars, extraVars>>

\* some thread is inside set_configuration
Registering == \E u \in Threads : tcall[u].op = "set"

\* the lru_cache wrapper of get_configuration: a hit returns at once, a miss
\* enters the body
CallGet(t, path) ==
    /\ tpc[t] = "idle"
    /\ tdone < MaxCalls
    /\ tdone' = tdone + 1
    /\ IF path \in DOMAIN cache
       THEN /\ tret' = [tret EXCEPT ![t] =
                           [op |-> "get", path |-> path, result |-> cache[path],
                            quiet |-> ~Registering,
                            fresh |-> Walk(path, resources, arguments)]]
            /\ UNCHANGED <<tpc, tcall>>
       ELSE /\ tpc' = [tpc EXCEPT ![t] = "setup_acquire"]
            /\ tcall' = [tcall EXCEPT ![t] =
                            [op |-> "get", path |-> path, idx |-> 1,
                             acc |-> <<None, None>>, quiet |-> ~Registering]]
            /\ UNCHANGED tret
    /\ UNCHANGED <<cfgVars, written, globVars, extraVars>>

\* register_configuration_parameter -> set_configuration, up to _delayed_setup
CallSet(t, path, r, a, g) ==
    /\ tpc[t] = "idle"
    /\ tdone < MaxCalls
    /\ RegisterError(r, a, g) = "ok"
    /\ tdone' = tdone + 1
    /\ tpc' = [tpc EXCEPT ![t] = "setup_acquire"]
    /\ tcall' = [u \in Threads |->
                    IF u = t THEN [op |-> "set", path |-> path, r |-> r, a |-> a, g |-> g]
                    ELSE IF tcall[u].op = "get" THEN [tcall[u] EXCEPT !.quiet = FALSE]
                    ELSE tcall[u]]
    /\ UNCHANGED <<cfgVars, tret, written, globVars, extraVars>>

\* _delayed_setup: `with self.setup_lock:`
SetupAcquire(t) ==
    /\ tpc[t] = "setup_acquire"
    /\ LockFree(setup_lock)
    /\ setup_lock' = t
    /\ tpc' = [tpc EXCEPT ![t] = "setup_check"]
    /\ UNCHANGED <<is_setup, resources, arguments, general_options, cache, setup_runs,
                   seqVars, tcall, tdone, tret, written>>

\* _delayed_setup: `if not self.is_setup:`
SetupCheck(t) ==
    /\ tpc[t] = "setup_check"
    /\ IF NeedSetup(is_setup)
       THEN /\ tpc' = [tpc EXCEPT ![t] = "setup_arguments"]
            /\ setup_runs' = setup_runs + 1
       ELSE /\ tpc' = [tpc EXCEPT ![t] = "setup_release"]
            /\ UNCHANGED setup_runs
    /\ UNCHANGED <<is_setup, resources, arguments, general_options, setup_lock, cache,
                   seqVars, tcall, tdone, tret, written>>

\* _delayed_setup: `self.arguments = {'/': {}}`
SetupArgumentsStep(t) ==
    /\ tpc[t] = "setup_arguments"
    /\ arguments' = SetupArguments
    /\ tpc' = [tpc EXCEPT ![t] = "setup_resources"]
    /\ UNCHANGED <<is_setup, resources, general_options, setup_lock, cache, setup_runs,
                   seqVars, tcall, tdone, tret, written>>

\* _delayed_setup: `self.resources = {'/': self.default_resource}`
SetupResourcesStep(t) ==
    /\ tpc[t] = "setup_resources"
    /\ resources' = SetupResources
    /\ tpc' = [tpc EXCEPT ![t] = "setup_options"]
    /\ UNCHANGED <<is_setup, arguments, general_options, setup_lock, cache, setup_runs,
                   seqVars, tcall, tdone, tret, written>>

\* _delayed_setup: `self.general_options = ...; self.is_setup = True`
SetupFlagStep(t) ==
    /\ tpc[t] = "setup_options"
    /\ general_options' = SetupOptions
    /\ is_setup' = TRUE
    /\ tpc' = [tpc EXCEPT ![t] = "setup_release"]
    /\ UNCHANGED <<resources, arguments, setup_lock, cache, setup_runs,
                   seqVars, tcall, tdone, tret, written>>

\* _delayed_setup: leaving the `with` block; the caller's body comes next
SetupRelease(t) ==
    /\ tpc[t] = "setup_release"
    /\ setup_lock' = 0
    /\ tpc' = [tpc EXCEPT ![t] = IF tcall[t].op = "get" THEN "walk_resources"
                                 ELSE "write_arguments"]
    /\ UNCHANGED <<is_setup, resources, arguments, general_options, cache, setup_runs,
                   seqVars, tcall, tdone, tret, written>>

\* get_configuration: the first `if` of the loop body, for ancestor idx
WalkResources(t) ==
    /\ tpc[t] = "walk_resources"
    /\ tcall' = [tcall EXCEPT ![t].acc =
                    StepResources(@, PathName(Chain(tcall[t].path)[tcall[t].idx]), resources)]
    /\ tpc' = [tpc EXCEPT ![t] = "walk_arguments"]
    /\ UNCHANGED <<cfgVars, tdone, tret, written, globVars, extraVars>>

\* get_configuration: the second `if` of the loop body; after the last
\* ancestor the wrapper memoizes the pair and the call returns it
WalkArguments(t) ==
    /\ tpc[t] = "walk_arguments"
    /\ tcall' = [tcall EXCEPT ![t].acc =
                    StepArguments(@, PathName(Chain(tcall[t].path)[tcall[t].idx]), arguments),
                                  ![t].idx = @ + 1]
    /\ tpc' = [tpc EXCEPT ![t] = IF tcall[t].idx < Len(Chain(tcall[t].path))
                                 THEN "walk_resources" ELSE "store"]
    /\ UNCHANGED <<cfgVars, tdone, tret, written, globVars, extraVars>>

\* the lru_cache wrapper stores the pair the body computed and returns it
StoreResult(t) ==
    /\ tpc[t] = "store"
    /\ cache' = CachePut(cache, tcall[t].path, tcall[t].acc)
    /\ tret' = [tret EXCEPT ![t] =
                   [op |-> "get", path |-> tcall[t].path, result |-> tcall[t].acc,
                    quiet |-> tcall[t].quiet,
                    fresh |-> Walk(tcall[t].path, resources, arguments)]]
    /\ tpc' = [tpc EXCEPT ![t] = "idle"]
    /\ tcall' = [tcall EXCEPT ![t] = NoCall]
    /\ UNCHANGED <<is_setup, resources, arguments, general_options, setup_lock, setup_runs,
                   seqVars, tdone, written>>

\* set_configuration: `if arguments is not None: self.arguments[path_name] = arguments`
WriteArguments(t) ==
    /\ tpc[t] = "write_arguments"
    /\ arguments' = StoreIfGiven(arguments, PathName(tcall[t].path), tcall[t].a)
    /\ written' = written \cup
           (IF tcall[t].a # None THEN {<<"arguments", PathName(tcall[t].path)>>} ELSE {})
    /\ tpc' = [tpc EXCEPT ![t] = "write_resources"]
    /\ UNCHANGED <<is_setup, resources, general_options, setup_lock, cache, setup_runs,
                   seqVars, tcall, tdone, tret>>

\* set_configuration: `if resource is not None: self.resources[path_name] = resource`
\* and the same for glob_new_algorithm
WriteResources(t) ==
    /\ tpc[t] = "write_resources"
    /\ resources' = StoreIfGiven(resources, PathName(tcall[t].path), tcall[t].r)
    /\ general_options' = StoreIfGiven(general_options, PathName(tcall[t].path), tcall[t].g)
    /\ written' = written \cup
           (IF tcall[t].r # None THEN {<<"resources", PathName(tcall[t].path)>>} ELSE {})
    /\ tpc' = [tpc EXCEPT ![t] = "cache_clear"]
    /\ UNCHANGED <<is_setup, arguments, setup_lock, cache, setup_runs,
                   seqVars, tcall, tdone, tret>>

\* set_configuration: `self.get_configuration.cache_clear()`, then it returns
ClearCache(t) ==
    /\ tpc[t] = "cache_clear"
    /\ cache' = CacheClear(cache)
    /\ tret' = [tret EXCEPT ![t] = [op |-> "set", path |-> tcall[t].path]]
    /\ tpc' = [tpc EXCEPT ![t] = "idle"]
    /\ tcall' = [tcall EXCEPT ![t] = NoCall]
    /\ UNCHANGED <<is_setup, resources, arguments, general_options, setup_lock, setup_runs,
                   seqVars, tdone, written>>

ConcNext ==
    \E t \in Threads :
        \/ \E path \in ConcPaths : CallGet(t, path)
        \/ \E path \in ConcPaths, in \in ConcRegInputs : CallSet(t, path, in[1], in[2], in[3])
        \/ SetupAcquire(t)
        \/ SetupCheck(t)
        \/ SetupArgumentsStep(t)
        \/ SetupResourcesStep(t)
        \/ SetupFlagStep(t)
        \/ SetupRelease(t)
        \/ WalkResources(t)
        \/ WalkArguments(t)
        \/ StoreResult(t)
        \/ WriteArguments(t)
        \/ WriteResources(t)
        \/ ClearCache(t)

SpecConc == Init /\ [][ConcNext]_vars


\* ------------------------------------------------------------------------
\* Claims on SpecConc
\* ------------------------------------------------------------------------

\* C3: a resolve call that starts after every register call has returned, and
\* runs while no register call is in progress, returns the pair of the maps
\* as the registrations left them.
C3_NoStaleAfterRegister ==
    \A t \in Threads :
        (tret[t].op = "get" /\ tret[t].quiet) => tret[t].result = tret[t].fresh

\* the statements that read or write the two dictionaries
MapStatements == {"walk_resources", "walk_arguments", "write_arguments", "write_resources"}

\* C4: the body of _delayed_setup runs at most once (exactly once when the
\* map is set up), nobody reads or writes the dictionaries before the setup
\* has finished, and no entry a registration stored is lost afterwards.
C4_SetupOnce ==
    /\ setup_runs <= 1
    /\ is_setup => setup_runs = 1
    /\ \A t \in Threads : tpc[t] \in MapStatements => is_setup
    /\ \A w \in written :
           /\ w[1] = "arguments" => w[2] \in DOMAIN arguments
           /\ w[1] = "resources" => w[2] \in DOMAIN resources

\* two first calls race: one thread is inside the setup body while another
\* one waits for the lock, and a registration is stored after the setup
C4_Witness ==
    \/ \E t, u \in Threads :
           /\ tpc[t] = "setup_resources"
           /\ tpc[u] = "setup_acquire"
           /\ tcall[t].op = "get"
           /\ tcall[u].op = "set"
    \/ /\ written # {}
       /\ \E t \in Threads : tpc[t] = "setup_release" /\ tcall[t].op = "get"


\* ------------------------------------------------------------------------
\* Strings are tuples of one-character strings; the str methods the selector
\* uses
\* ------------------------------------------------------------------------
Sep == "/"

\* s.count(c)
RECURSIVE Count(_, _)
Count(s, c) ==
    IF s = <<>> THEN 0 ELSE (IF Head(s) = c THEN 1 ELSE 0) + Count(Tail(s), c)

\* s.split(sep)
RECURSIVE Split(_)
Split(s) ==
    IF \A i \in 1..Len(s) : s[i] # Sep THEN <<s>>
    ELSE LET k == CHOOSE i \in 1..Len(s) : s[i] = Sep /\ \A j \in 1..(i - 1) : s[j] # Sep
         IN  <<SubSeq(s, 1, k - 1)>> \o Split(SubSeq(s, k + 1, Len(s)))

\* sep.join(parts)
RECURSIVE Join(_)
Join(parts) ==
    IF parts = <<>> THEN <<>>
    ELSE IF Len(parts) = 1 THEN parts[1]
    ELSE parts[1] \o <<Sep>> \o Join(Tail(parts))

\* s.rsplit(sep, maxsplit=maxsplit)
RSplit(s, maxsplit) ==
    LET parts == Split(s)
        n == Len(parts) - 1
    IN  IF maxsplit < 0 \/ maxsplit >= n THEN parts
        ELSE <<Join(SubSeq(parts, 1, n + 1 - maxsplit))>>
                 \o SubSeq(parts, n + 2 - maxsplit, n + 1)

\* s.startswith(p)
StartsWith(s, p) == Len(p) <= Len(s) /\ SubSeq(s, 1, Len(p)) = p

\* `'**' in s`
HasDoubleStar(s) == \E i \in 1..(Len(s) - 1) : s[i] = "*" /\ s[i + 1] = "*"

\* parts[:n]
Take(parts, n) == SubSeq(parts, 1, IF n < Len(parts) THEN n ELSE Len(parts))

\* PurePath._parse_path on the posix flavour: the root and the parts, empty
\* and "." components dropped
ParsePath(path) ==
    [root  |-> IF path # <<>> /\ path[1] = Sep THEN Sep ELSE "",
     parts |-> SelectSeq(Split(path), LAMBDA x : x # <<>> /\ x # <<".">>)]

\* type(self._path)(target): the parts of the path built from a string
S3PathOf(target) == ParsePath(target).parts

\* ------------------------------------------------------------------------
\* The pattern selector
\* ------------------------------------------------------------------------

\* _is_wildcard_pattern
IsWildcardPattern(pat) == \E i \in 1..Len(pat) : pat[i] \in {"*", "?", "["}

\* the loop of _prefix_splitter: the leading components without a wildcard,
\* each followed by the separator
RECURSIVE LiteralPrefix(_, _)
LiteralPrefix(parts, i) ==
    IF i > Len(parts) \/ IsWildcardPattern(parts[i]) THEN <<>>
    ELSE parts[i] \o <<Sep>> \o LiteralPrefix(parts, i + 1)

\* _Selector._prefix_splitter: <<prefix, pattern>>
PrefixSplitter(key, pattern) ==
    IF ~IsWildcardPattern(pattern)
    THEN IF key # <<>> THEN <<key \o <<Sep>> \o pattern, <<>>>> ELSE <<pattern, <<>>>>
    ELSE LET prefix == LiteralPrefix(ParsePath(pattern).parts, 1)
             rest == IF StartsWith(pattern, prefix)
                     THEN SubSeq(pattern, Len(prefix) + 1, Len(pattern))
                     ELSE pattern
         IN  IF key # <<>> THEN <<Join(<<key, prefix>>), rest>> ELSE <<prefix, rest>>

\* _Selector._calculate_pattern_level: None is [bounded |-> FALSE]
CalculatePatternLevel(prefix, pattern) ==
    IF HasDoubleStar(pattern) THEN [bounded |-> FALSE, n |-> 0]
    ELSE [bounded |-> TRUE,
          n |-> Len(ParsePath(IF prefix # <<>> THEN prefix \o <<Sep>> \o pattern
                              ELSE pattern).parts)]

\* a selector that always asks for full keys
AlwaysFullKeys(pattern) == TRUE

\* _Selector._calculate_full_or_just_folder
CalculateFullOrJustFolder(pattern) ==
    \/ HasDoubleStar(pattern)
    \/ LET parts == ParsePath(pattern).parts
       IN  \E i \in 1..(Len(parts) - 1) : \E j \in 1..Len(parts[i]) : parts[i][j] = "*"

\* Regular expressions are tuples of tokens:
\*   <<"lit", c>>  the character c        <<"any", "">>   .   (dot-all)
\*   <<"star", "">>  .*  (dot-all)        <<"seg", "">>   [^/]+
\*   <<"seps", "">>  /*
\* fnmatch.translate(part)[:-2]: `*` becomes .*, `?` becomes ., anything else
\* itself, inside (?s:...)
RECURSIVE FnmatchTranslate(_)
FnmatchTranslate(part) ==
    IF part = <<>> THEN <<>>
    ELSE <<(IF Head(part) = "*" THEN <<"star", "">>
            ELSE IF Head(part) = "?" THEN <<"any", "">>
            ELSE <<"lit", Head(part)>>)>> \o FnmatchTranslate(Tail(part))

\* part.replace("**", ".*"), the other characters standing for themselves
RECURSIVE ReplaceDoubleStar(_)
ReplaceDoubleStar(part) ==
    IF part = <<>> THEN <<>>
    ELSE IF StartsWith(part, <<"*", "*">>)
         THEN <<<<"star", "">>>> \o ReplaceDoubleStar(SubSeq(part, 3, Len(part)))
         ELSE <<<<"lit", Head(part)>>>> \o ReplaceDoubleStar(Tail(part))

\* the loop of _compile_pattern_parts
RECURSIVE CompileParts(_, _)
CompileParts(parts, i) ==
    IF i > Len(parts) THEN <<<<"seps", "">>>>
    ELSE (IF HasDoubleStar(parts[i])
          THEN <<<<"seps", "">>>> \o ReplaceDoubleStar(parts[i])
          ELSE IF parts[i] = <<"*">>
          THEN <<<<"lit", Sep>>, <<"seg", "">>>>
          ELSE <<<<"lit", Sep>>>> \o FnmatchTranslate(parts[i]))
         \o CompileParts(parts, i + 1)

\* _Selector._compile_pattern_parts
CompilePatternParts(prefix, pattern, bucket) ==
    CompileParts(ParsePath(Join(<<<<>>, bucket, prefix, pattern>>)).parts, 1)

\* re.compile(...).fullmatch: the tokens from i on match s from j on
RECURSIVE MatchFrom(_, _, _, _)
MatchFrom(re, i, s, j) ==
    IF i > Len(re) THEN j > Len(s)
    ELSE CASE re[i][1] = "lit" ->
                  j <= Len(s) /\ s[j] = re[i][2] /\ MatchFrom(re, i + 1, s, j + 1)
           [] re[i][1] = "any" ->
                  j <= Len(s) /\ MatchFrom(re, i + 1, s, j + 1)
           [] re[i][1] = "star" ->
                  \E k \in j..(Len(s) + 1) : MatchFrom(re, i + 1, s, k)
           [] re[i][1] = "seg" ->
                  \E k \in (j + 1)..(Len(s) + 1) :
                      /\ \A m \in j..(k - 1) : s[m] # Sep
                      /\ MatchFrom(re, i + 1, s, k)
           [] re[i][1] = "seps" ->
                  \E k \in j..(Len(s) + 1) :
                      /\ \A m \in j..(k - 1) : s[m] = Sep
                      /\ MatchFrom(re, i + 1, s, k)

FullMatch(re, s) == MatchFrom(re, 1, s, 1)

\* _Selector.__init__
Selector(key, bucket, pattern) ==
    LET split == PrefixSplitter(key, pattern)
    IN  [prefix    |-> split[1],
         pattern   |-> split[2],
         full_keys |-> CalculateFullOrJustFolder(split[2]),
         level     |-> CalculatePatternLevel(split[1], split[2]),
         regex     |-> CompilePatternParts(split[1], split[2], bucket)]

\* the inner loop of _deep_cached_dir_scan without the cache: the growing
\* target_path after each non-empty part
RECURSIVE TargetPaths(_, _, _)
TargetPaths(parts, i, acc) ==
    IF i > Len(parts) THEN <<>>
    ELSE IF parts[i] = <<>> THEN TargetPaths(parts, i + 1, acc)
    ELSE <<acc \o <<Sep>> \o parts[i]>>
             \o TargetPaths(parts, i + 1, acc \o <<Sep>> \o parts[i])

\* a scan that derives the deepest level only
KeyTargetsLeafOnly(sel, key) ==
    LET all == TargetPaths(RSplit(key, Count(key, Sep) + 1 - Count(sel.prefix, Sep)), 1, <<>>)
    IN  IF all = <<>> THEN all ELSE <<all[Len(all)]>>

\* _deep_cached_dir_scan for one key: the levels it derives from the key
KeyTargets(sel, key) ==
    LET prefix_sep_count == Count(sel.prefix, Sep)
        key_sep_count == Count(key, Sep) + 1
        key_parts == RSplit(key, key_sep_count - prefix_sep_count)
        target_path_parts == IF sel.level.bounded THEN Take(key_parts, sel.level.n)
                             ELSE key_parts
    IN  TargetPaths(target_path_parts, 1, <<>>)

\* _Selector.select for the levels of one key: the ones not yet in the cache
\* that match become paths
Yielded(sel, bucket, targets, seen) ==
    LET fresh == SelectSeq(targets, LAMBDA t : t \notin seen)
        hits == SelectSeq(fresh, LAMBDA t : FullMatch(sel.regex, <<Sep>> \o bucket \o t))
    IN  [i \in 1..Len(hits) |-> S3PathOf(<<Sep>> \o bucket \o hits[i])]

\* checks that let a component mixing `**` with other characters through
PatternErrorLenient(pattern) ==
    IF pattern = <<>> THEN "ValueError"
    ELSE IF ParsePath(pattern).root # "" THEN "NotImplementedError"
    ELSE "ok"

\* S3Path.glob and S3Path.rglob: the checks made on the pattern
PatternError(pattern) ==
    IF pattern = <<>> THEN "ValueError"
    ELSE IF ParsePath(pattern).root # "" THEN "NotImplementedError"
    ELSE IF \E i \in 1..Len(ParsePath(pattern).parts) :
                /\ ParsePath(pattern).parts[i] # <<"*", "*">>
                /\ HasDoubleStar(ParsePath(pattern).parts[i])
         THEN "ValueError"
    ELSE "ok"

\* the pattern handed to _Selector by glob
GlobPattern(pattern) == pattern

\* a prefix that descends one level only
RGlobPatternOneLevel(pattern) == <<"*", Sep>> \o pattern

\* the pattern handed to _Selector by rglob
RGlobPattern(pattern) == <<"*", "*", Sep>> \o pattern


\* ------------------------------------------------------------------------
\* SpecGlob: one glob or rglob call on a base inside the bucket "B"
\* ------------------------------------------------------------------------
Bucket == <<"B">>

SegA == <<"a">>
SegB == <<"b">>
SegAB == <<"a", "b">>

\* the keys the bucket can hold; "a/b/" is a folder marker, and "a/." is a
\* key with a `.` segment, which S3 accepts as any other key
KeyUniverse ==
    { Join(<<SegA>>), Join(<<SegAB>>), Join(<<SegA, SegB>>), Join(<<SegA, SegAB>>),
      Join(<<SegAB, SegB>>), Join(<<SegA, SegB, SegA>>), Join(<<SegA, SegB, SegAB>>),
      Join(<<SegA, SegAB, SegB>>), Join(<<SegA, SegB, SegA, SegB>>),
      Join(<<SegA, SegB, <<>>>>), Join(<<SegA, <<".">>>>),
      Join(<<SegA, SegB, SegA, SegAB>>) }

\* the keys of the bases a call is made on: the bucket itself, "a" and "a/b"
BaseKeys == {<<>>, Join(<<SegA>>), Join(<<SegA, SegB>>)}

\* single components with a wildcard, and without
WildComponents == {<<"*">>, <<"a", "*">>, <<"*", "b">>, <<"?">>, <<"a", "?">>}
PlainComponents == {SegA, SegAB}

\* the empty pattern, an absolute one, one that mixes `**` with a name, and
\* an absolute one that does so
BadPatterns == {<<>>, <<Sep, "a">>, <<"a", "*", "*">>, <<Sep, "a", "*", "*">>}

RGlobPatterns == WildComponents \cup PlainComponents \cup BadPatterns

GlobPatterns ==
    RGlobPatterns
        \cup {<<"*", "*">>}
        \cup {<<"*", "*", Sep>> \o c : c \in RGlobPatterns}
        \cup {<<"*", Sep, "*">>, <<"a", Sep, "*">>, <<"*", Sep, "b">>, <<"?", Sep, "b">>,
              <<"*", "*", Sep, "*", Sep, "b">>}

Calls == {<<"glob", p>> : p \in GlobPatterns} \cup {<<"rglob", p>> : p \in RGlobPatterns}

\* the path of a base, as get_configuration sees it
BasePath(key) == <<Bucket>> \o ParsePath(key).parts

\* list_objects_v2 for the request iter_keys builds (Bucket, Prefix when the
\* prefix is not empty, Delimiter unless full_keys): Contents as "file"
\* entries, CommonPrefixes as "folder" entries
ListEntries(store, prefix, full_keys) ==
    LET under == {k \in store : StartsWith(k, prefix)}
        rest(k) == SubSeq(k, Len(prefix) + 1, Len(k))
        first(k) == Split(rest(k))[1]
    IN  IF full_keys THEN {<<"file", k>> : k \in under}
        ELSE {<<"file", k>> : k \in {x \in under : Count(rest(x), Sep) = 0}}
                 \cup {<<"folder", prefix \o first(k) \o <<Sep>>>> :
                           k \in {x \in under : Count(rest(x), Sep) > 0}}

Range(seq) == {seq[i] : i \in 1..Len(seq)}

\* a scan that never remembers a level
CacheForget(seen, targets) == seen

\* `cache.add(target_path)` for the levels of one key
CacheAdd(seen, targets) == seen \cup Range(targets)

\* glob / rglob up to the first request: the checks on the pattern, the
\* _Selector, and the prologue of iter_keys
GlobCall(api, key, pattern) ==
    /\ g_pc = "idle"
    /\ g_in' = [api |-> api, key |-> key, pattern |-> pattern]
    /\ IF PatternError(pattern) # "ok"
       THEN /\ g_pc' = "raised"
            /\ g_err' = PatternError(pattern)
            /\ UNCHANGED <<g_sel, g_rest, cfgVars>>
       ELSE /\ g_pc' = "fetch"
            /\ g_sel' = Selector(key, Bucket, IF api = "glob" THEN GlobPattern(pattern)
                                              ELSE RGlobPattern(pattern))
            /\ g_rest' = ListEntries(g_store, g_sel'.prefix, g_sel'.full_keys)
            /\ ResolveBody(BasePath(key))
            /\ UNCHANGED g_err
    /\ UNCHANGED <<g_store, g_page, g_more, g_cache, g_out, g_lists, thrVars, extraVars>>

\* a request without a ContinuationToken
TokenLeftOut(continuation_token) == NoToken

\* `if continuation_token: kwargs['ContinuationToken'] = continuation_token`:
\* the token the request carries
KwargsToken(continuation_token) ==
    IF continuation_token.set THEN continuation_token ELSE NoToken

\* `continuation_token = response.get('NextContinuationToken')`, reached
\* when the page is truncated: the token stands for the entries not served
NextContinuationToken(token, more, rest) ==
    IF more THEN [set |-> TRUE, rest |-> rest] ELSE token

\* the remote: the entries a request asks for, those its token stands for
\* or, without a token, the whole listing
Designated(all, token) == IF token.set THEN token.rest ELSE all

\* get_keys: one list_objects_v2 request; the remote returns some of the
\* entries asked for, at most a page of them
FetchPage ==
    /\ g_pc = "fetch"
    /\ Len(l_log) < MaxPages
    /\ LET sent == KwargsToken(l_token)
           remaining == Designated(ListEntries(g_store, g_sel.prefix, g_sel.full_keys), sent)
       IN  \E page \in SUBSET remaining :
               /\ Cardinality(page) <= PageSize
               /\ page = {} => remaining = {}
               /\ g_page' = page
               /\ g_rest' = remaining \ page
               /\ g_more' = (g_rest' # {})
               /\ g_pc' = IF page = {} THEN "done" ELSE "page"
               /\ l_log' = Append(l_log, [sent |-> sent, page |-> page])
    /\ g_lists' = g_lists + 1
    /\ UNCHANGED <<g_store, g_in, g_err, g_sel, g_cache, g_out, cfgVars, thrVars, pathVars,
                    opVars, l_token, l_keys, callVars>>

\* a loop that asks for the next page as soon as there is one
FetchAhead(page, more) ==
    IF more THEN "fetch" ELSE IF page # {} THEN "page" ELSE "done"

\* where the loop over a page goes after an entry: to the next entry, at the
\* end of the page to the next request when IsTruncated, else it ends
AfterEntry(page, more) ==
    IF page # {} THEN "page" ELSE IF more THEN "fetch" ELSE "done"

\* the next key of the page (Contents before CommonPrefixes) goes through
\* _deep_cached_dir_scan and select
NextKey ==
    /\ g_pc = "page"
    /\ \E e \in g_page :
           /\ e[1] = "folder" => \A f \in g_page : f[1] = "folder"
           /\ g_out' = g_out \o Yielded(g_sel, Bucket, KeyTargets(g_sel, e[2]), g_cache)
           /\ g_cache' = CacheAdd(g_cache, KeyTargets(g_sel, e[2]))
           /\ g_page' = g_page \ {e}
           /\ g_pc' = AfterEntry(g_page', g_more)
           /\ l_keys' = Append(l_keys, e)
           /\ l_token' = IF g_page' = {} THEN NextContinuationToken(l_token, g_more, g_rest)
                         ELSE l_token
    /\ UNCHANGED <<g_store, g_in, g_err, g_sel, g_rest, g_more, g_lists, cfgVars, thrVars,
                    pathVars, opVars, l_log, callVars>>

GlobStart == \E call \in Calls, key \in BaseKeys : GlobCall(call[1], key, call[2])

GlobInit ==
    /\ CfgInit
    /\ ThrInit
    /\ GlobIdle
    /\ ExtraIdle
    /\ g_store \in {S \in SUBSET KeyUniverse : Cardinality(S) <= MaxKeys}

GlobNext == GlobStart \/ FetchPage \/ NextKey

SpecGlob == GlobInit /\ [][GlobNext]_vars


\* ------------------------------------------------------------------------
\* Claims on SpecGlob
\* ------------------------------------------------------------------------

\* the segments of a key
SegsOf(key) == SelectSeq(Split(key), LAMBDA x : x # <<>>)

IsPrefixOf(p, q) == Len(p) <= Len(q) /\ SubSeq(q, 1, Len(p)) = p

\* every level strictly below the base that some key lies at or under
Levels(store, base) ==
    UNION {{SubSeq(SegsOf(k), 1, n) : n \in (Len(base) + 1)..Len(SegsOf(k))} :
               k \in {x \in store : IsPrefixOf(base, SegsOf(x))}}

\* the immediate children of the base
Children(store, base) == {l \in Levels(store, base) : Len(l) = Len(base) + 1}

\* a name matches a component: `*` any run of characters, `?` one character
RECURSIVE SegMatch(_, _)
SegMatch(name, pat) ==
    IF pat = <<>> THEN name = <<>>
    ELSE IF Head(pat) = "*"
         THEN SegMatch(name, Tail(pat)) \/ (name # <<>> /\ SegMatch(Tail(name), pat))
    ELSE IF name = <<>> THEN FALSE
    ELSE (Head(pat) = "?" \/ Head(pat) = Head(name)) /\ SegMatch(Tail(name), Tail(pat))

\* a relative path matches a pattern, component by component, `**` standing
\* for any number of levels
RECURSIVE PathMatch(_, _)
PathMatch(segs, comps) ==
    IF comps = <<>> THEN segs = <<>>
    ELSE IF Head(comps) = <<"*", "*">>
         THEN PathMatch(segs, Tail(comps)) \/ (segs # <<>> /\ PathMatch(Tail(segs), comps))
    ELSE IF segs = <<>> THEN FALSE
    ELSE SegMatch(Head(segs), Head(comps)) /\ PathMatch(Tail(segs), Tail(comps))

Base == SegsOf(g_in.key)
Out == Range(g_out)
Finished == g_pc \in {"done", "raised"}
\* the path of a level: the S3Path built from its string, as select builds it
PathOfLevel(l) == S3PathOf(<<Sep>> \o Join(<<Bucket>> \o l))
AsPaths(levels) == {PathOfLevel(l) : l \in levels}
SingleComponent(pattern) == pattern # <<>> /\ Count(pattern, Sep) = 0

RecursiveOf ==
    IF g_in.api = "rglob" THEN g_in.pattern
    ELSE SubSeq(g_in.pattern, 4, Len(g_in.pattern))

IsRecursiveCall ==
    \/ g_in.api = "rglob"
    \/ g_in.api = "glob" /\ StartsWith(g_in.pattern, <<"*", "*", Sep>>)

\* C7: glob('**/' + P) and rglob(P), P a single component, yield exactly the
\* levels below the base, at every depth, whose last segment matches P.
C7_RecursiveExact ==
    (g_pc = "done" /\ IsRecursiveCall /\ SingleComponent(RecursiveOf))
    => Out = AsPaths({l \in Levels(g_store, Base) : SegMatch(l[Len(l)], RecursiveOf)})

\* what glob(pattern) on the base yields over the whole listing, or the error
\* it raises
GlobOutcome(store, key, pattern) ==
    IF PatternError(pattern) # "ok" THEN [error |-> PatternError(pattern), paths |-> {}]
    ELSE LET sel == Selector(key, Bucket, GlobPattern(pattern))
             targets == UNION {Range(KeyTargets(sel, e[2])) :
                                   e \in ListEntries(store, sel.prefix, sel.full_keys)}
         IN  [error |-> "none",
              paths |-> {S3PathOf(<<Sep>> \o Bucket \o t) :
                             t \in {x \in targets : FullMatch(sel.regex, <<Sep>> \o Bucket \o x)}}]

\* C8 as stated: for every pattern p, rglob(p) ends as glob('**/' + p) ends.
C8_RglobIsGlob_AsStated ==
    (Finished /\ g_in.api = "rglob")
    => [error |-> g_err, paths |-> Out]
           = GlobOutcome(g_store, g_in.key, <<"*", "*", Sep>> \o g_in.pattern)

\* C8 amended: for every non-empty relative pattern p, rglob(p) ends as
\* glob('**/' + p) ends: the same paths, or the same error.
C8_RglobIsGlob ==
    (Finished /\ g_in.api = "rglob" /\ g_in.pattern # <<>>
        /\ ParsePath(g_in.pattern).root = "")
    => [error |-> g_err, paths |-> Out]
           = GlobOutcome(g_store, g_in.key, <<"*", "*", Sep>> \o g_in.pattern)

\* an rglob that yielded paths from two levels
C8_Witness ==
    /\ g_pc = "done"
    /\ g_in.api = "rglob"
    /\ \E p, q \in Out : Len(p) # Len(q)

\* C9: no path is yielded twice in one call, whatever the keys and however
\* the listing is cut into pages.
C9_NoDuplicates ==
    \A i, j \in 1..Len(g_out) : i # j => g_out[i] # g_out[j]

\* the components of the pattern handed to the selector
SelectorComponents ==
    ParsePath(IF g_in.api = "rglob" THEN RGlobPattern(g_in.pattern)
              ELSE GlobPattern(g_in.pattern)).parts

\* a component that is a literal, `*` or `**`
SimpleComponent(c) == ~IsWildcardPattern(c) \/ c = <<"*">> \/ c = <<"*", "*">>

\* a level no key equals and that has no object directly under it
InferredOnly(store, level) ==
    \A k \in store :
        IsPrefixOf(level, SegsOf(k)) => Len(SegsOf(k)) > Len(level) + 1

\* C10: with a pattern made of literals, `*` and `**`, a level below the base
\* that matches the pattern is yielded also when it is only inferred from
\* deeper keys.
C10_InferredLevels ==
    (g_pc = "done" /\ \A i \in 1..Len(SelectorComponents) : SimpleComponent(SelectorComponents[i]))
    => \A l \in Levels(g_store, Base) :
           (InferredOnly(g_store, l)
               /\ PathMatch(SubSeq(l, Len(Base) + 1, Len(l)), SelectorComponents))
           => PathOfLevel(l) \in Out

\* `*/*` yields a second-level folder that holds nothing but a deeper prefix
C10_Witness ==
    /\ g_pc = "done"
    /\ g_in.pattern = <<"*", Sep, "*">>
    /\ \E l \in Levels(g_store, Base) :
           /\ Len(l) = Len(Base) + 2
           /\ InferredOnly(g_store, l)
           /\ PathOfLevel(l) \in Out

\* the two keys x/y/z/file1 and x/y/z/file2 of the example, with x = "a",
\* y = "b", z = "a"
TwoFilesStore == {Join(<<SegA, SegB, SegA, SegB>>), Join(<<SegA, SegB, SegA, SegAB>>)}

TwoFilesCall ==
    /\ g_pc = "done"
    /\ g_in.api = "glob"
    /\ g_in.key = Join(<<SegA>>)
    /\ g_in.pattern = <<"*", Sep, "*">>
    /\ g_store = TwoFilesStore

\* C11 as stated: with exactly the keys x/y/z/file1 and x/y/z/file2, the
\* pattern `*/*` under x yields the level x/y, once.
C11_TwoLevels_AsStated ==
    TwoFilesCall => g_out = <<PathOfLevel(<<SegA, SegB>>)>>

\* C11 amended: with exactly the keys x/y/z/file1 and x/y/z/file2, the
\* pattern `*/*` under x yields the level x/y/z, two levels below the base,
\* and yields it once.
C11_TwoLevels ==
    TwoFilesCall => g_out = <<PathOfLevel(<<SegA, SegB, SegA>>)>>

\* the call of the example has ended, and both keys were listed
C11_Witness ==
    /\ TwoFilesCall
    /\ g_rest = {}
    /\ Len(g_out) = 1

\* a component of the pattern holds `**` together with other characters
MixedDoubleStar(pattern) ==
    \E i \in 1..Len(Split(pattern)) :
        Split(pattern)[i] # <<"*", "*">> /\ HasDoubleStar(Split(pattern)[i])

Rejected(error) == g_pc = "raised" /\ g_err = error /\ g_lists = 0 /\ g_out = <<>>

\* C12: glob and rglob reject a bad pattern before any listing request: the
\* empty pattern with ValueError, an absolute pattern with
\* NotImplementedError, a relative pattern with a component mixing `**` and
\* other characters with ValueError.
C12_BadPatternRejected ==
    g_pc # "idle" =>
        /\ g_in.pattern = <<>> => Rejected("ValueError")
        /\ (g_in.pattern # <<>> /\ Head(g_in.pattern) = Sep) => Rejected("NotImplementedError")
        /\ (g_in.pattern # <<>> /\ Head(g_in.pattern) # Sep /\ MixedDoubleStar(g_in.pattern))
               => Rejected("ValueError")

\* rglob of `a**` on a bucket that holds keys was rejected
C12_Witness ==
    /\ Rejected("ValueError")
    /\ g_in.api = "rglob"
    /\ g_in.pattern = <<"a", "*", "*">>
    /\ g_store # {}

\* ------------------------------------------------------------------------
\* PureS3Path: construction, str, bucket, key and the URI forms
\* ------------------------------------------------------------------------

\* posixpath.splitroot: exactly two leading separators are a root of their own
SplitRoot(path) ==
    IF path = <<>> \/ path[1] # Sep THEN [root |-> <<>>, rel |-> path]
    ELSE IF Len(path) >= 2 /\ path[2] = Sep /\ ~(Len(path) >= 3 /\ path[3] = Sep)
         THEN [root |-> <<Sep, Sep>>, rel |-> SubSeq(path, 3, Len(path))]
    ELSE [root |-> <<Sep>>, rel |-> Tail(path)]

\* PurePath._parse_path: the root and the tail, empty and "." components
\* dropped
LoadPath(path) ==
    IF path = <<>> THEN [root |-> <<>>, tail |-> <<>>]
    ELSE [root |-> SplitRoot(path).root,
          tail |-> SelectSeq(Split(SplitRoot(path).rel), LAMBDA x : x # <<>> /\ x # <<".">>)]

\* PurePath.parts: the root, when there is one, then the tail
Parts(path) == (IF path.root # <<>> THEN <<path.root>> ELSE <<>>) \o path.tail

DotDot == <<".", ".">>

Has(list, x) == \E i \in 1..Len(list) : list[i] = x

\* list.index(x), counted from 1
FirstIndex(list, x) ==
    CHOOSE i \in 1..Len(list) : list[i] = x /\ \A j \in 1..(i - 1) : list[j] # x

\* list.pop(i - 1) for the 1-based position i
RemoveAt(list, i) == SubSeq(list, 1, i - 1) \o SubSeq(list, i + 1, Len(list))

\* the body of the loop for one `..` of the snapshot: index, pop(index - 1),
\* remove; index and remove raise ValueError when no `..` is left, and
\* pop(-1), reached when the first `..` leads the list, drops the last part
DropParent(list) ==
    IF ~Has(list, DotDot) THEN [err |-> TRUE, list |-> <<>>]
    ELSE LET i == FirstIndex(list, DotDot)
             popped == IF i = 1 THEN RemoveAt(list, Len(list)) ELSE RemoveAt(list, i - 1)
         IN  IF ~Has(popped, DotDot) THEN [err |-> TRUE, list |-> <<>>]
             ELSE [err |-> FALSE, list |-> RemoveAt(popped, FirstIndex(popped, DotDot))]

\* `for part in new_parts[1:]`: the snapshot is walked while the list changes
RECURSIVE DropParents(_, _, _)
DropParents(snapshot, i, st) ==
    IF st.err \/ i > Len(snapshot) THEN st
    ELSE IF snapshot[i] = DotDot THEN DropParents(snapshot, i + 1, DropParent(st.list))
    ELSE DropParents(snapshot, i + 1, st)

\* posixpath.join(*raw)
RECURSIVE PosixJoin(_, _)
PosixJoin(path, rest) ==
    IF rest = <<>> THEN path
    ELSE IF StartsWith(Head(rest), <<Sep>>) THEN PosixJoin(Head(rest), Tail(rest))
    ELSE IF path = <<>> \/ path[Len(path)] = Sep THEN PosixJoin(path \o Head(rest), Tail(rest))
    ELSE PosixJoin(path \o <<Sep>> \o Head(rest), Tail(rest))

\* PurePath._load_parts on the raw paths
LoadRaw(raw) ==
    LoadPath(IF raw = <<>> THEN <<>> ELSE PosixJoin(Head(raw), Tail(raw)))

RaisedPath(error) == [err |-> error, root |-> <<>>, tail |-> <<>>]

\* PureS3Path(string)
PureS3Path(string) ==
    LET new_parts == Parts(LoadPath(string))
        st == DropParents(SubSeq(new_parts, 2, Len(new_parts)), 1,
                          [err |-> FALSE, list |-> new_parts])
    IN  IF st.err THEN RaisedPath("ValueError")
        ELSE [err |-> "none", root |-> LoadRaw(st.list).root, tail |-> LoadRaw(st.list).tail]

\* str(path)
Str(path) ==
    IF path.root # <<>> THEN path.root \o Join(path.tail)
    ELSE IF path.tail = <<>> THEN <<".">>
    ELSE Join(path.tail)

IsAbsolute(path) == path.root # <<>>

\* a validation that lets every path through
NoPathValidation(path) == "none"

\* _absolute_path_validation
AbsolutePathValidation(path) == IF IsAbsolute(path) THEN "none" ELSE "ValueError"

\* PureS3Path.bucket: `_, bucket, *_ = self.parts`, or ''
BucketOf(path) == IF Len(Parts(path)) >= 2 THEN Parts(path)[2] ELSE <<>>

\* a key that keeps the bucket
KeyWithBucket(path) == Join(SubSeq(Parts(path), 2, Len(Parts(path))))

\* PureS3Path.key: sep.join(self.parts[2:])
KeyOf(path) == Join(SubSeq(Parts(path), 3, Len(Parts(path))))

\* a quote that leaves every character as it is
QuoteCharAsIs(c) == <<c>>

\* urllib.parse.quote_from_bytes with safe='/': letters, digits, `_.-~` and
\* the separator stay, any other character becomes % and two hex digits
QuoteChar(c) ==
    CASE c = ":" -> <<"%", "3", "A">>
      [] c = "%" -> <<"%", "2", "5">>
      [] c = " " -> <<"%", "2", "0">>
      [] OTHER -> <<c>>

RECURSIVE Quote(_)
Quote(string) ==
    IF string = <<>> THEN <<>> ELSE QuoteChar(Head(string)) \o Quote(Tail(string))

HexDigits == {"0", "1", "2", "3", "4", "5", "6", "7", "8", "9",
              "a", "b", "c", "d", "e", "f", "A", "B", "C", "D", "E", "F"}

\* the character of a byte written as two hex digits; "?" stands for every
\* character not listed
ByteChar(h1, h2) ==
    CASE h1 = "3" /\ h2 \in {"A", "a"} -> ":"
      [] h1 = "2" /\ h2 = "5" -> "%"
      [] h1 = "2" /\ h2 = "0" -> " "
      [] h1 = "2" /\ h2 \in {"F", "f"} -> Sep
      [] h1 = "4" /\ h2 = "1" -> "A"
      [] h1 = "6" /\ h2 = "1" -> "a"
      [] OTHER -> "?"

\* urllib.parse.unquote: % and two hex digits become the character, any other
\* % stays
RECURSIVE Unquote(_)
Unquote(string) ==
    IF string = <<>> THEN <<>>
    ELSE IF Head(string) = "%" /\ Len(string) >= 3
            /\ string[2] \in HexDigits /\ string[3] \in HexDigits
         THEN <<ByteChar(string[2], string[3])>> \o Unquote(SubSeq(string, 4, Len(string)))
    ELSE <<Head(string)>> \o Unquote(Tail(string))

\* str.replace(old, new)
RECURSIVE ReplaceAll(_, _, _)
ReplaceAll(string, old, new) ==
    IF string = <<>> THEN <<>>
    ELSE IF StartsWith(string, old)
         THEN new \o ReplaceAll(SubSeq(string, Len(old) + 1, Len(string)), old, new)
    ELSE <<Head(string)>> \o ReplaceAll(Tail(string), old, new)

FileScheme == <<"f", "i", "l", "e", ":", Sep, Sep>>
S3Scheme == <<"s", "3", ":", Sep, Sep>>

\* PureS3Path.as_uri: PurePath.as_uri, then 'file:///' replaced by 's3://'
AsUri(path) ==
    IF ~IsAbsolute(path) THEN [err |-> "ValueError", uri |-> <<>>]
    ELSE [err |-> "none",
          uri |-> ReplaceAll(FileScheme \o Quote(Str(path)), FileScheme \o <<Sep>>, S3Scheme)]

\* PureS3Path.from_uri
FromUri(uri) ==
    IF ~StartsWith(uri, S3Scheme) THEN RaisedPath("ValueError")
    ELSE PureS3Path(SubSeq(Unquote(uri), 5, Len(Unquote(uri))))

\* ------------------------------------------------------------------------
\* SpecPath: one string made a path, and the path's operations applied
\* ------------------------------------------------------------------------

\* the segments strings are made of, and the ways a string starts
PathSegs == {<<"a">>, <<".">>, DotDot}
Leads == {<<>>, <<Sep>>, <<Sep, Sep>>}

PlainStrings ==
    {lead \o Join(segs) : lead \in Leads,
                          segs \in UNION {[1..n -> PathSegs] : n \in 0..MaxSegs}}

\* segments with characters as_uri escapes, and with a literal escape
UriSegs == {<<"a", ":">>, <<"%", "3", "A">>, <<"%">>, <<"a", " ", "a">>}

UriStrings ==
    {<<Sep>> \o Join(<<Bucket, seg>>) : seg \in UriSegs}
        \cup {<<Sep>> \o Join(<<Bucket, seg, <<"a">>>>) : seg \in UriSegs}

PathStrings == PlainStrings \cup UriStrings

PathInit ==
    /\ CfgInit
    /\ ThrInit
    /\ GlobIdle
    /\ g_store = {}
    /\ p_pc = "new"
    /\ p_arg \in PathStrings
    /\ p_path = None
    /\ p_str = None
    /\ p_again = None
    /\ p_bk = None
    /\ p_uri = None
    /\ p_back = None
    /\ p_uri2 = None
    /\ OpIdle
    /\ ListIdle
    /\ CallIdle

otherThanPath == <<cfgVars, thrVars, globVars, opVars, listVars, callVars>>

\* PureS3Path(p_arg)
PathConstruct ==
    /\ p_pc = "new"
    /\ p_path' = PureS3Path(p_arg)
    /\ p_pc' = IF p_path'.err # "none" THEN "raised" ELSE "built"
    /\ UNCHANGED <<p_arg, p_str, p_again, p_bk, p_uri, p_back, p_uri2, otherThanPath>>

\* str(path)
PathStr ==
    /\ p_pc = "built"
    /\ p_str' = Str(p_path)
    /\ p_pc' = "str"
    /\ UNCHANGED <<p_arg, p_path, p_again, p_bk, p_uri, p_back, p_uri2, otherThanPath>>

\* PureS3Path(str(path))
PathReparse ==
    /\ p_pc = "str"
    /\ p_again' = PureS3Path(p_str)
    /\ p_pc' = "again"
    /\ UNCHANGED <<p_arg, p_path, p_str, p_bk, p_uri, p_back, p_uri2, otherThanPath>>

\* path.bucket and path.key
PathBucketKey ==
    /\ p_pc = "again"
    /\ p_bk' = IF AbsolutePathValidation(p_path) # "none"
               THEN [err |-> AbsolutePathValidation(p_path), bucket |-> <<>>, key |-> <<>>]
               ELSE [err |-> "none", bucket |-> BucketOf(p_path), key |-> KeyOf(p_path)]
    /\ p_pc' = "bk"
    /\ UNCHANGED <<p_arg, p_path, p_str, p_again, p_uri, p_back, p_uri2, otherThanPath>>

\* path.as_uri()
PathAsUri ==
    /\ p_pc = "bk"
    /\ p_uri' = AsUri(p_path)
    /\ p_pc' = IF p_uri'.err # "none" THEN "done" ELSE "uri"
    /\ UNCHANGED <<p_arg, p_path, p_str, p_again, p_bk, p_back, p_uri2, otherThanPath>>

\* PureS3Path.from_uri(path.as_uri())
PathFromUri ==
    /\ p_pc = "uri"
    /\ p_back' = FromUri(p_uri.uri)
    /\ p_pc' = "back"
    /\ UNCHANGED <<p_arg, p_path, p_str, p_again, p_bk, p_uri, p_uri2, otherThanPath>>

\* as_uri() of the path that came back
PathAsUriAgain ==
    /\ p_pc = "back"
    /\ p_uri2' = IF p_back.err # "none" THEN [err |-> p_back.err, uri |-> <<>>]
                 ELSE AsUri(p_back)
    /\ p_pc' = "done"
    /\ UNCHANGED <<p_arg, p_path, p_str, p_again, p_bk, p_uri, p_back, otherThanPath>>

PathNext ==
    \/ PathConstruct
    \/ PathStr
    \/ PathReparse
    \/ PathBucketKey
    \/ PathAsUri
    \/ PathFromUri
    \/ PathAsUriAgain

SpecPath == PathInit /\ [][PathNext]_vars

\* ------------------------------------------------------------------------
\* Claims on SpecPath
\* ------------------------------------------------------------------------

Reparsed == p_pc \in {"again", "bk", "uri", "back", "done"}
Built == p_pc \in {"built", "str"} \/ Reparsed

\* C13: parsing the string of a parsed path gives the same path again:
\* parse(serialize(parse(P))) = parse(P).
C13_Idempotent ==
    (Reparsed /\ p_arg \in PlainStrings) => p_again = p_path

\* C14: a string that starts with the root gives a path that is absolute and
\* has the same root, however many `..` segments it holds and wherever.
C14_RootKept ==
    (Built /\ SplitRoot(p_arg).root # <<>>)
    => IsAbsolute(p_path) /\ p_path.root = SplitRoot(p_arg).root

\* C15: for an absolute path, bucket is the first segment after the root, or
\* empty on the bare root, and key is the segments after it joined by the
\* separator, or empty.
C15_BucketKey ==
    (p_pc \in {"bk", "uri", "back", "done"} /\ IsAbsolute(p_path))
    => /\ p_bk.err = "none"
       /\ p_bk.bucket = (IF p_path.tail = <<>> THEN <<>> ELSE Head(p_path.tail))
       /\ p_bk.key = (IF p_path.tail = <<>> THEN <<>> ELSE Join(Tail(p_path.tail)))

\* an absolute path with a bucket and a key of two segments
C15_Witness ==
    /\ p_pc = "done"
    /\ IsAbsolute(p_path)
    /\ Len(p_path.tail) = 3
    /\ p_bk.key = Join(Tail(p_path.tail))
    /\ Count(p_bk.key, Sep) = 1

\* C17: for an absolute path p, from_uri(p.as_uri()) is p, escaped characters
\* included, and the URI of the path that came back is the same URI.
C17_UriRoundTrip ==
    (p_pc = "done" /\ IsAbsolute(p_path))
    => /\ p_back = p_path
       /\ p_uri2 = p_uri
       /\ p_uri.err = "none"

\* a path with a literal `%3A` segment went to a URI with an escaped `%` and
\* came back
C17_Witness ==
    /\ p_pc = "done"
    /\ Has(p_path.tail, <<"%", "3", "A">>)
    /\ \E i \in 1..Len(p_uri.uri) : p_uri.uri[i] = "%"
    /\ p_back = p_path

\* ------------------------------------------------------------------------
\* SpecOps: one S3Path operation over the bucket "B"
\* ------------------------------------------------------------------------
True == <<"bool", 1>>
False == <<"bool", 0>>
Bool(b) == IF b THEN True ELSE False

\* what the remote holds: whether the bucket exists, and its keys
World(bucket, store) == [bucket |-> bucket, store |-> store]

\* an operation ends by raising or by returning, after `n` requests, and
\* leaves the remote as `w`
Raise(w, error, n) ==
    [err |-> error, val |-> None, remote |-> n, bucket |-> w.bucket, store |-> w.store]
Return(w, val, n) ==
    [err |-> "none", val |-> val, remote |-> n, bucket |-> w.bucket, store |-> w.store]

\* the bucket a request names is there
BucketExists(w, path) == w.bucket /\ BucketOf(path) = Bucket

\* accessor._generate_prefix
GeneratePrefix(path) ==
    IF KeyOf(path) = <<>> THEN <<>>
    ELSE IF KeyOf(path)[Len(KeyOf(path))] # Sep THEN KeyOf(path) \o <<Sep>>
    ELSE KeyOf(path)

\* accessor.is_dir
AccessorIsDir(w, path) ==
    IF Str(path) = path.root THEN Return(w, True, 0)
    ELSE IF ~BucketExists(w, path) THEN Raise(w, "ClientError", 1)
    ELSE Return(w, Bool(\E k \in w.store : StartsWith(k, GeneratePrefix(path))), 1)

\* S3Path.is_dir
IsDir(w, path) ==
    IF AbsolutePathValidation(path) # "none" THEN Raise(w, AbsolutePathValidation(path), 0)
    ELSE IF BucketOf(path) # <<>> /\ KeyOf(path) = <<>> THEN Return(w, True, 0)
    ELSE AccessorIsDir(w, path)

\* accessor.stat: the attributes of the ObjectSummary are loaded with one
\* request, which fails when the key is not there
AccessorStat(w, path) ==
    IF BucketExists(w, path) /\ KeyOf(path) \in w.store
    THEN Return(w, <<"StatResult", KeyOf(path)>>, 1)
    ELSE Raise(w, "ClientError", 1)

\* S3Path.stat
Stat(w, path, follow_symlinks) ==
    IF ~follow_symlinks THEN Raise(w, "NotImplementedError", 0)
    ELSE IF AbsolutePathValidation(path) # "none" THEN Raise(w, AbsolutePathValidation(path), 0)
    ELSE IF KeyOf(path) = <<>> THEN Return(w, None, 0)
    ELSE AccessorStat(w, path)

\* S3Path.is_file
IsFile(w, path) ==
    IF AbsolutePathValidation(path) # "none" THEN Raise(w, AbsolutePathValidation(path), 0)
    ELSE IF BucketOf(path) = <<>> \/ KeyOf(path) = <<>> THEN Return(w, False, 0)
    ELSE IF Stat(w, path, TRUE).err = "ClientError"
         THEN Return(w, False, Stat(w, path, TRUE).remote)
    ELSE Return(w, True, Stat(w, path, TRUE).remote)

\* accessor.exists, for a path without a version
AccessorExists(w, path) ==
    IF KeyOf(path) = <<>> THEN Return(w, Bool(BucketExists(w, path)), 1)
    ELSE IF ~BucketExists(w, path) THEN Raise(w, "ClientError", 1)
    ELSE Return(w, Bool(\E k \in w.store :
                            k = KeyOf(path) \/ StartsWith(k, KeyOf(path) \o <<Sep>>)), 1)

\* S3Path.exists
Exists(w, path) ==
    IF AbsolutePathValidation(path) # "none" THEN Raise(w, AbsolutePathValidation(path), 0)
    ELSE IF BucketOf(path) = <<>> THEN Return(w, True, 0)
    ELSE AccessorExists(w, path)

\* S3Path.owner, accessor.owner
Owner(w, path) ==
    IF AbsolutePathValidation(path) # "none" THEN Raise(w, AbsolutePathValidation(path), 0)
    ELSE IF IsFile(w, path).val = False THEN Raise(w, "KeyError", IsFile(w, path).remote)
    ELSE Return(w, <<"DisplayName", 0>>, IsFile(w, path).remote + 1)

\* the order S3 lists keys in: by their bytes
CharRank(c) ==
    CASE c = "." -> 1 [] c = Sep -> 2 [] c = "B" -> 3 [] c = "a" -> 4 [] c = "b" -> 5
      [] OTHER -> 6

RECURSIVE KeyLess(_, _)
KeyLess(x, y) ==
    IF y = <<>> THEN FALSE
    ELSE IF x = <<>> THEN TRUE
    ELSE IF Head(x) # Head(y) THEN CharRank(Head(x)) < CharRank(Head(y))
    ELSE KeyLess(Tail(x), Tail(y))

\* bucket.objects.filter(Prefix=prefix): the keys, in the order of the listing
RECURSIVE Sorted(_)
Sorted(keys) ==
    IF keys = {} THEN <<>>
    ELSE LET least == CHOOSE k \in keys : \A x \in keys \ {k} : KeyLess(k, x)
         IN  <<least>> \o Sorted(keys \ {least})

ObjectsFilter(store, prefix) == Sorted({k \in store : StartsWith(k, prefix)})

\* the loop of accessor.rename over the listed objects: copy to the new key,
\* then delete the old one
RECURSIVE CopyAndDelete(_, _, _, _)
CopyAndDelete(store, listed, source_key_name, target_key_name) ==
    IF listed = <<>> THEN store
    ELSE CopyAndDelete(
             (store \cup {ReplaceAll(Head(listed), source_key_name, target_key_name)})
                 \ {Head(listed)},
             Tail(listed), source_key_name, target_key_name)

\* accessor.rename, source and target in the bucket and with a key
AccessorRename(w, path, target) ==
    IF AccessorIsDir(w, path).err # "none" THEN Raise(w, AccessorIsDir(w, path).err, 1)
    ELSE IF AccessorIsDir(w, path).val = False
         THEN IF KeyOf(path) \notin w.store THEN Raise(w, "ClientError", 2)
              ELSE Return(World(w.bucket, (w.store \cup {KeyOf(target)}) \ {KeyOf(path)}),
                          Str(target), 3)
    ELSE Return(World(w.bucket,
                      CopyAndDelete(w.store, ObjectsFilter(w.store, KeyOf(path)),
                                    KeyOf(path), KeyOf(target))),
                Str(target),
                2 + 2 * Len(ObjectsFilter(w.store, KeyOf(path))))

\* S3Path.rename: the target is given as a string
Rename(w, path, target) ==
    IF AbsolutePathValidation(path) # "none" THEN Raise(w, AbsolutePathValidation(path), 0)
    ELSE IF PureS3Path(target).err # "none" THEN Raise(w, PureS3Path(target).err, 0)
    ELSE IF AbsolutePathValidation(PureS3Path(target)) # "none"
         THEN Raise(w, AbsolutePathValidation(PureS3Path(target)), 0)
    ELSE AccessorRename(w, path, PureS3Path(target))

\* PureS3Path.is_bucket
IsBucket(path) == IsAbsolute(path) /\ path = PureS3Path(<<Sep>> \o BucketOf(path))

\* accessor.rmdir
AccessorRmdir(w, path, n) ==
    IF ~BucketExists(w, path) THEN Raise(w, "ClientError", n + 1)
    ELSE Return(World(w.bucket /\ ~IsBucket(path),
                      w.store \ Range(ObjectsFilter(w.store, KeyOf(path)))),
                None,
                n + 1 + Len(ObjectsFilter(w.store, KeyOf(path)))
                  + (IF IsBucket(path) THEN 1 ELSE 0))

\* S3Path.rmdir
Rmdir(w, path) ==
    IF AbsolutePathValidation(path) # "none" THEN Raise(w, AbsolutePathValidation(path), 0)
    ELSE IF IsFile(w, path).val = True
         THEN Raise(w, "NotADirectoryError", IsFile(w, path).remote)
    ELSE IF IsDir(w, path).err # "none"
         THEN Raise(w, IsDir(w, path).err, IsFile(w, path).remote + IsDir(w, path).remote)
    ELSE IF IsDir(w, path).val = False
         THEN Raise(w, "FileNotFoundError", IsFile(w, path).remote + IsDir(w, path).remote)
    ELSE AccessorRmdir(w, path, IsFile(w, path).remote + IsDir(w, path).remote)

\* an unlink that sends delete_object at once
UnlinkUnchecked(w, path, missing_ok) ==
    IF AbsolutePathValidation(path) # "none" THEN Raise(w, AbsolutePathValidation(path), 0)
    ELSE Return(World(w.bucket, w.store \ {KeyOf(path)}), None, 1)

\* S3Path.unlink, accessor.unlink
Unlink(w, path, missing_ok) ==
    IF AbsolutePathValidation(path) # "none" THEN Raise(w, AbsolutePathValidation(path), 0)
    ELSE IF IsDir(w, path).err # "none" THEN Raise(w, IsDir(w, path).err, IsDir(w, path).remote)
    ELSE IF IsDir(w, path).val = True
         THEN IF missing_ok THEN Return(w, None, IsDir(w, path).remote)
              ELSE Raise(w, "IsADirectoryError", IsDir(w, path).remote)
    ELSE IF IsFile(w, path).val = False
         THEN IF missing_ok THEN Return(w, None, IsDir(w, path).remote + IsFile(w, path).remote)
              ELSE Raise(w, "FileNotFoundError",
                         IsDir(w, path).remote + IsFile(w, path).remote)
    ELSE Return(World(w.bucket, w.store \ {KeyOf(path)}), None,
                IsDir(w, path).remote + IsFile(w, path).remote + 1)

\* S3Path.touch: exists(), then write_text('') puts the key
Touch(w, path, exist_ok) ==
    IF Exists(w, path).err # "none" THEN Exists(w, path)
    ELSE IF Exists(w, path).val = True /\ ~exist_ok
         THEN Raise(w, "FileExistsError", Exists(w, path).remote)
    ELSE Return(World(w.bucket, w.store \cup {KeyOf(path)}), None, Exists(w, path).remote + 1)

\* FileNotFoundError and FileExistsError are OSError, ValueError is not
OSErrors == {"FileNotFoundError", "FileExistsError"}

\* the body of the `try` of S3Path.mkdir, accessor.mkdir
MkdirBody(w, path, parents) ==
    IF AbsolutePathValidation(path) # "none" THEN Raise(w, AbsolutePathValidation(path), 0)
    ELSE IF BucketOf(path) = <<>> THEN Raise(w, "FileNotFoundError", 0)
    ELSE IF KeyOf(path) # <<>> /\ ~parents THEN Raise(w, "FileNotFoundError", 0)
    ELSE IF BucketExists(w, path) THEN Raise(w, "FileExistsError", 1)
    ELSE Return(World(w.bucket \/ BucketOf(path) = Bucket, w.store), None, 2)

\* S3Path.mkdir
Mkdir(w, path, parents, exist_ok) ==
    IF MkdirBody(w, path, parents).err \in OSErrors /\ exist_ok
    THEN Return(w, None, MkdirBody(w, path, parents).remote)
    ELSE MkdirBody(w, path, parents)

\* S3Path.open in the default mode: the file object reads on demand
Open(w, path) ==
    IF AbsolutePathValidation(path) # "none" THEN Raise(w, AbsolutePathValidation(path), 0)
    ELSE Return(w, <<"file", KeyOf(path)>>, 0)

\* S3Path.samefile: the other path is given as a string
SameFile(w, path, other_path) ==
    IF AbsolutePathValidation(path) # "none" THEN Raise(w, AbsolutePathValidation(path), 0)
    ELSE IF PureS3Path(other_path).err # "none" THEN Raise(w, PureS3Path(other_path).err, 0)
    ELSE IF AbsolutePathValidation(PureS3Path(other_path)) # "none"
         THEN Raise(w, AbsolutePathValidation(PureS3Path(other_path)), 0)
    ELSE IF BucketOf(path) = BucketOf(PureS3Path(other_path))
              /\ KeyOf(path) = KeyOf(PureS3Path(other_path))
         THEN IsFile(w, path)
    ELSE Return(w, False, 0)

\* S3Path.get_presigned_url: the URL is signed without a request
GetPresignedUrl(w, path, expire_in) ==
    IF AbsolutePathValidation(path) # "none" THEN Raise(w, AbsolutePathValidation(path), 0)
    ELSE IF expire_in <= 0 THEN Raise(w, "ValueError", 0)
    ELSE Return(w, <<"url", KeyOf(path)>>, 0)

\* PureS3Path.bucket and PureS3Path.key, the properties
BucketProperty(w, path) ==
    IF AbsolutePathValidation(path) # "none" THEN Raise(w, AbsolutePathValidation(path), 0)
    ELSE Return(w, BucketOf(path), 0)
KeyProperty(w, path) ==
    IF AbsolutePathValidation(path) # "none" THEN Raise(w, AbsolutePathValidation(path), 0)
    ELSE Return(w, KeyOf(path), 0)

\* a probe that answers False
AnswerFalse(w, path) == Return(w, False, 0)

\* the probes of _PathNotSupportedMixin
IsSymlink(w, path) == Return(w, False, 0)
IsSocket(w, path) == Return(w, False, 0)
IsFifo(w, path) == Return(w, False, 0)
IsMount(w, path) == Return(w, False, 0)
IsBlockDevice(w, path) == Raise(w, "NotImplementedError", 0)
IsCharDevice(w, path) == Raise(w, "NotImplementedError", 0)

ProbeNames ==
    {"is_symlink", "is_socket", "is_fifo", "is_mount", "is_block_device", "is_char_device"}

Probe(name, w, path) ==
    CASE name = "is_symlink" -> IsSymlink(w, path)
      [] name = "is_socket" -> IsSocket(w, path)
      [] name = "is_fifo" -> IsFifo(w, path)
      [] name = "is_mount" -> IsMount(w, path)
      [] name = "is_block_device" -> IsBlockDevice(w, path)
      [] name = "is_char_device" -> IsCharDevice(w, path)

\* the paths operations are invoked on: "a" and "a/b"; "/", "/B", "/B/a" and
\* "/B/a/b"
OpRelStrings == {Join(<<SegA>>), Join(<<SegA, SegB>>)}
OpKeyStrings == {<<Sep>> \o Join(<<Bucket, SegA>>), <<Sep>> \o Join(<<Bucket, SegA, SegB>>)}
OpAbsStrings == {<<Sep>>, <<Sep>> \o Bucket} \cup OpKeyStrings
OpStrings == OpRelStrings \cup OpAbsStrings

\* the keys the bucket can hold: those of SpecGlob and the folder marker "a/"
OpKeys == KeyUniverse \cup {Join(<<SegA, <<>>>>)}

\* the name get_configuration knows a path by: the segments of an absolute
\* path, and a name that starts at no root for a relative one
ConfigName(path) == IF IsAbsolute(path) THEN path.tail ELSE <<<<"relative">>>> \o path.tail

\* type(path)(target_bucket_name, new_key)
BucketAndKey(bucket, key) == PureS3Path(PosixJoin(bucket, <<key>>))

\* the paths an operation hands to get_configuration, in order
Resolved(op, path, arg, r, store) ==
    IF r.remote = 0 THEN (IF op \in {"open", "get_presigned_url"} /\ r.err = "none"
                          THEN <<ConfigName(path)>> ELSE <<>>)
    ELSE IF op = "mkdir"
         THEN <<<<BucketOf(path)>>>> \o (IF r.remote > 1 THEN <<ConfigName(path)>> ELSE <<>>)
    ELSE IF op = "rename" /\ r.err = "none" /\ r.remote # 3
         THEN <<ConfigName(path)>> \o
              [i \in 1..((r.remote - 2) \div 2) |->
                  ConfigName(BucketAndKey(
                      BucketOf(PureS3Path(arg)),
                      ReplaceAll(ObjectsFilter(store, KeyOf(path))[i],
                                 KeyOf(path), KeyOf(PureS3Path(arg)))))]
    ELSE <<ConfigName(path)>>

\* what get_configuration returns for a name: nothing is registered at a
\* name that starts at no root
Configuration(name, res_map, arg_map) ==
    IF name # <<>> /\ name[1] = <<"relative">> THEN <<None, None>> ELSE Walk(name, res_map, arg_map)

\* get_configuration behind its lru_cache, for each of the paths in turn
ResolveEach(names) ==
    /\ IF \A i \in 1..Len(names) : names[i] \in DOMAIN cache
       THEN /\ last' = IF names = <<>> THEN last
                       ELSE [op |-> "get", path |-> names[Len(names)],
                             result |-> cache[names[Len(names)]]]
            /\ UNCHANGED <<is_setup, resources, arguments, general_options,
                           setup_lock, cache, setup_runs>>
       ELSE /\ DelayedSetup
            /\ arguments' = AfterSetupArgs
            /\ resources' = AfterSetupRes
            /\ general_options' = AfterSetupOpts
            /\ cache' = [x \in (DOMAIN cache) \cup Range(names) |->
                            IF x \in DOMAIN cache THEN cache[x]
                            ELSE Configuration(x, resources', arguments')]
            /\ last' = [op |-> "get", path |-> names[Len(names)],
                        result |-> cache'[names[Len(names)]]]
    /\ UNCHANGED <<regs, cleared, thrVars>>

OpsInit ==
    /\ CfgInit
    /\ ThrInit
    /\ GlobIdle
    /\ PathIdle
    /\ ListIdle
    /\ CallIdle
    /\ o_bucket \in BOOLEAN
    /\ g_store \in {S \in SUBSET OpKeys : Cardinality(S) <= MaxKeys /\ (S # {} => o_bucket)}
    /\ o_pc = "idle"
    /\ o_call = None
    /\ o_ret = None
    /\ o_remote = 0
    /\ o_before = None
    /\ o_rest = {}
    /\ o_page = {}
    /\ o_more = FALSE
    /\ o_out = <<>>

globRun == <<g_pc, g_in, g_err, g_sel, g_rest, g_page, g_more, g_cache, g_out, g_lists>>

\* an operation that is over when the method returns: invoked on the path
\* built from `string`, it ends as `r`
Invoke(op, string, arg, r) ==
    /\ o_pc = "idle"
    /\ g_pc = "idle"
    /\ o_call' = [op |-> op, path |-> string, arg |-> arg]
    /\ o_before' = World(o_bucket, g_store)
    /\ LET ended == r
       IN  /\ o_ret' = [err |-> ended.err, val |-> ended.val]
           /\ o_remote' = ended.remote
           /\ o_bucket' = ended.bucket
           /\ g_store' = ended.store
           /\ ResolveEach(Resolved(op, PureS3Path(string), arg, ended, g_store))
    /\ o_pc' = "done"
    /\ UNCHANGED <<o_rest, o_page, o_more, o_out, globRun, pathVars, listVars, callVars>>

Now == World(o_bucket, g_store)

OpBucket == \E s \in OpStrings : Invoke("bucket", s, None, BucketProperty(Now, PureS3Path(s)))

OpKey == \E s \in OpStrings : Invoke("key", s, None, KeyProperty(Now, PureS3Path(s)))

OpStat ==
    \E s \in OpStrings, follow_symlinks \in BOOLEAN :
        Invoke("stat", s, follow_symlinks, Stat(Now, PureS3Path(s), follow_symlinks))

OpExists == \E s \in OpStrings : Invoke("exists", s, None, Exists(Now, PureS3Path(s)))

OpIsDir == \E s \in OpStrings : Invoke("is_dir", s, None, IsDir(Now, PureS3Path(s)))

OpIsFile == \E s \in OpStrings : Invoke("is_file", s, None, IsFile(Now, PureS3Path(s)))

OpOwner == \E s \in OpStrings : Invoke("owner", s, None, Owner(Now, PureS3Path(s)))

\* the targets of a rename: as the sources, and "/B/b"
RenameTargets == OpRelStrings \cup OpKeyStrings \cup {<<Sep>> \o Join(<<Bucket, SegB>>)}

\* source and target are relative or have a key
OpRename ==
    \E s \in OpRelStrings \cup OpKeyStrings, target \in RenameTargets :
        Invoke("rename", s, target, Rename(Now, PureS3Path(s), target))

\* the path is relative or has a bucket
OpRmdir == \E s \in OpStrings \ {<<Sep>>} : Invoke("rmdir", s, None, Rmdir(Now, PureS3Path(s)))

OpUnlink ==
    \E s \in OpStrings, missing_ok \in BOOLEAN :
        Invoke("unlink", s, missing_ok, Unlink(Now, PureS3Path(s), missing_ok))

\* the path is relative or has a key
OpTouch ==
    \E s \in OpRelStrings \cup OpKeyStrings, exist_ok \in BOOLEAN :
        Invoke("touch", s, exist_ok, Touch(Now, PureS3Path(s), exist_ok))

OpMkdir ==
    \E s \in OpStrings, parents \in BOOLEAN, exist_ok \in BOOLEAN :
        Invoke("mkdir", s, <<parents, exist_ok>>, Mkdir(Now, PureS3Path(s), parents, exist_ok))

OpOpen == \E s \in OpRelStrings \cup OpKeyStrings : Invoke("open", s, None, Open(Now, PureS3Path(s)))

OpSameFile ==
    \E s \in OpStrings, other_path \in OpStrings :
        Invoke("samefile", s, other_path, SameFile(Now, PureS3Path(s), other_path))

ExpireIn == {0, 3600}

OpGetPresignedUrl ==
    \E s \in OpRelStrings \cup OpKeyStrings, expire_in \in ExpireIn :
        Invoke("get_presigned_url", s, expire_in,
               GetPresignedUrl(Now, PureS3Path(s), expire_in))

OpProbe ==
    \E s \in OpStrings, name \in ProbeNames : Invoke(name, s, None, Probe(name, Now, PureS3Path(s)))

\* the patterns glob and rglob are invoked with here
OpPatterns == {<<"*">>, SegA, <<>>}

\* glob and rglob: on a relative path the validation raises when the
\* generator is started; on a base inside the bucket the call goes on as in
\* SpecGlob
OpGlob ==
    /\ o_pc = "idle"
    /\ g_pc = "idle"
    /\ \E api \in {"glob", "rglob"},
          s \in OpRelStrings \cup {<<Sep>> \o Bucket} \cup OpKeyStrings,
          pattern \in OpPatterns :
           IF AbsolutePathValidation(PureS3Path(s)) # "none"
           THEN Invoke(api, s, pattern, Raise(Now, AbsolutePathValidation(PureS3Path(s)), 0))
           ELSE o_bucket /\ GlobCall(api, KeyOf(PureS3Path(s)), pattern)

\* self / name
TrueDiv(path, name) == PureS3Path(PosixJoin(Str(path), <<name>>))

\* the name _S3Scandir gives an entry: the last component of a common prefix
\* without its closing separator, of a key, or a bucket's name
EntryName(e) ==
    IF e[1] = "bucket" THEN e[2]
    ELSE IF e[1] = "folder" /\ e[2] # <<>> /\ e[2][Len(e[2])] = Sep
    THEN Split(SubSeq(e[2], 1, Len(e[2]) - 1))[Len(Split(SubSeq(e[2], 1, Len(e[2]) - 1)))]
    ELSE Split(e[2])[Len(Split(e[2]))]

\* `if file['Key'] == response['Prefix']: continue`
SkipEntry(e, prefix) == e[1] = "file" /\ e[2] = prefix

\* iterdir up to the first request: the validation, then the prologue of
\* _S3Scandir.__iter__
OpIterdir ==
    /\ o_pc = "idle"
    /\ g_pc = "idle"
    /\ \E s \in OpStrings :
           IF AbsolutePathValidation(PureS3Path(s)) # "none"
           THEN Invoke("iterdir", s, None, Raise(Now, AbsolutePathValidation(PureS3Path(s)), 0))
           ELSE /\ o_call' = [op |-> "iterdir", path |-> s, arg |-> None]
                /\ o_before' = Now
                /\ o_rest' = IF BucketOf(PureS3Path(s)) = <<>>
                             THEN (IF o_bucket THEN {<<"bucket", Bucket>>} ELSE {})
                             ELSE ListEntries(g_store, GeneratePrefix(PureS3Path(s)), FALSE)
                /\ o_pc' = "fetch"
                /\ ResolveEach(<<ConfigName(PureS3Path(s))>>)
                /\ UNCHANGED <<o_bucket, o_ret, o_remote, o_page, o_more, o_out, globVars,
                               pathVars, listVars, callVars>>

\* one request: resource.buckets.all for the root, else list_objects_v2,
\* which fails when the bucket is not there; the remote returns some of the
\* remaining entries, at most a page of them
IterdirFetch ==
    /\ o_pc = "fetch"
    /\ Len(l_log) < MaxPages
    /\ o_remote' = o_remote + 1
    /\ IF BucketOf(PureS3Path(o_call.path)) # <<>> /\ ~BucketExists(Now, PureS3Path(o_call.path))
       THEN /\ o_ret' = [err |-> "ClientError", val |-> None]
            /\ o_pc' = "done"
            /\ UNCHANGED <<o_rest, o_page, o_more, l_log>>
       ELSE LET sent == KwargsToken(l_token)
                all == IF BucketOf(PureS3Path(o_call.path)) = <<>>
                       THEN (IF o_bucket THEN {<<"bucket", Bucket>>} ELSE {})
                       ELSE ListEntries(g_store, GeneratePrefix(PureS3Path(o_call.path)), FALSE)
                remaining == Designated(all, sent)
            IN  \E page \in SUBSET remaining :
                    /\ Cardinality(page) <= PageSize
                    /\ page = {} => remaining = {}
                    /\ o_page' = page
                    /\ o_rest' = remaining \ page
                    /\ o_more' = (o_rest' # {})
                    /\ o_pc' = IF page = {} THEN "done" ELSE "page"
                    /\ o_ret' = IF page = {} THEN [err |-> "none", val |-> None] ELSE o_ret
                    /\ l_log' = Append(l_log, [sent |-> sent, page |-> page])
    /\ UNCHANGED <<o_bucket, o_call, o_before, o_out, cfgVars, thrVars, globVars, pathVars,
                    l_token, l_keys, callVars>>

\* the next entry of the page, CommonPrefixes before Contents: its name, and
\* the path iterdir makes of it
IterdirEntry ==
    /\ o_pc = "page"
    /\ \E e \in o_page :
           /\ e[1] = "file" => \A f \in o_page : f[1] = "file"
           /\ o_out' = IF SkipEntry(e, GeneratePrefix(PureS3Path(o_call.path))) THEN o_out
                       ELSE Append(o_out, TrueDiv(PureS3Path(o_call.path), EntryName(e)))
           /\ o_page' = o_page \ {e}
           /\ o_pc' = AfterEntry(o_page', o_more)
           /\ o_ret' = IF o_page' = {} /\ ~o_more THEN [err |-> "none", val |-> None] ELSE o_ret
           /\ l_keys' = IF SkipEntry(e, GeneratePrefix(PureS3Path(o_call.path))) THEN l_keys
                        ELSE Append(l_keys, e)
           /\ l_token' = IF o_page' = {} THEN NextContinuationToken(l_token, o_more, o_rest)
                         ELSE l_token
    /\ UNCHANGED <<o_bucket, o_call, o_remote, o_before, o_rest, o_more, cfgVars, thrVars,
                    globVars, pathVars, l_log, callVars>>

OpsNext ==
    \/ OpBucket
    \/ OpKey
    \/ OpStat
    \/ OpExists
    \/ OpIsDir
    \/ OpIsFile
    \/ OpOwner
    \/ OpRename
    \/ OpRmdir
    \/ OpUnlink
    \/ OpTouch
    \/ OpMkdir
    \/ OpOpen
    \/ OpSameFile
    \/ OpGetPresignedUrl
    \/ OpProbe
    \/ OpGlob
    \/ OpIterdir
    \/ IterdirFetch
    \/ IterdirEntry
    \/ FetchPage
    \/ NextKey

SpecOps == OpsInit /\ [][OpsNext]_vars

\* ------------------------------------------------------------------------
\* Claims on SpecOps
\* ------------------------------------------------------------------------
Relative(string) == ~IsAbsolute(PureS3Path(string))

Unchanged == Now = o_before

DeviceProbes == {"is_block_device", "is_char_device"}

ContextOps ==
    {"bucket", "key", "stat", "exists", "is_dir", "is_file", "iterdir", "open", "glob",
     "rglob", "rename", "rmdir", "unlink", "touch", "mkdir", "owner", "samefile",
     "get_presigned_url"}

\* the call is made on a relative path, or renames to one; stat is called
\* as it is by default, following symlinks
OnRelative ==
    /\ o_call.op \in ContextOps
    /\ \/ Relative(o_call.path) /\ (o_call.op = "stat" => o_call.arg = TRUE)
       \/ o_call.op = "rename" /\ Relative(o_call.arg)

IterBase == PureS3Path(o_call.path)
ScanPrefix == GeneratePrefix(IterBase)
Below == {SubSeq(k, Len(ScanPrefix) + 1, Len(k)) :
              k \in {x \in o_before.store : StartsWith(x, ScanPrefix)}}

\* the immediate children of the base: the first components of the keys that
\* go deeper, and the keys that do not, the folder marker apart
CommonPrefixGroups == {Split(rest)[1] : rest \in {r \in Below : Count(r, Sep) > 0}}
DirectObjects == {rest \in Below : Count(rest, Sep) = 0 /\ rest # <<>>}

Times(seq, x) == Cardinality({i \in 1..Len(seq) : seq[i] = x})

IterdirDone ==
    /\ o_pc = "done"
    /\ o_call.op = "iterdir"
    /\ o_ret.err = "none"
    /\ BucketOf(IterBase) # <<>>

\* C20 as stated: iterdir on a base B with a bucket yields, over all pages,
\* one path for each common-prefix group and one for each object directly
\* under B and nothing else, and B itself is not among the yielded paths
\* when the folder marker of B, the key equal to the scan prefix, exists.
C20_ChildrenOnce ==
    IterdirDone
        => /\ Len(o_out) = Cardinality(CommonPrefixGroups) + Cardinality(DirectObjects)
           /\ \A name \in CommonPrefixGroups \cup DirectObjects :
                  Times(o_out, TrueDiv(IterBase, name)) >=
                      (IF name \in CommonPrefixGroups /\ name \in DirectObjects THEN 2 ELSE 1)
           /\ ScanPrefix \in o_before.store =>
                  \A i \in 1..Len(o_out) : o_out[i] # IterBase

\* the call as the claims about the store see it: the path, its key, the
\* keys under it
CallPath == PureS3Path(o_call.path)
CallKey == KeyOf(CallPath)
UnderCall == {k \in o_before.store : StartsWith(k, CallKey \o <<Sep>>)}

\* an operation invoked on an absolute path inside the bucket, which exists
InBucket(op) ==
    /\ o_pc = "done"
    /\ o_call.op = op
    /\ IsAbsolute(CallPath)
    /\ BucketOf(CallPath) = Bucket
    /\ o_before.bucket

\* what unlink ends with when the path is not a key it can delete
Suppressed(error) ==
    /\ o_ret.err = (IF o_call.arg THEN "none" ELSE error)
    /\ Unchanged

TargetKey == KeyOf(PureS3Path(o_call.arg))
MovedKey(k) == TargetKey \o SubSeq(k, Len(CallKey) + 1, Len(k))
Outside == {k \in o_before.store : k \notin UnderCall /\ k # CallKey}

\* a key prefix was renamed to a target that is neither under it nor above it
PrefixRenamed ==
    /\ InBucket("rename")
    /\ o_ret.err = "none"
    /\ UnderCall # {}
    /\ ~StartsWith(TargetKey \o <<Sep>>, CallKey \o <<Sep>>)
    /\ ~StartsWith(CallKey \o <<Sep>>, TargetKey \o <<Sep>>)

\* C22: rename of a key prefix S to a target T moves every object S/rest to
\* T/rest with the same rest, after which nothing is left under S; the
\* objects whose key is not under S/ are neither moved nor deleted.
C22_RenameMovesPrefix ==
    PrefixRenamed
        => /\ \A k \in UnderCall : MovedKey(k) \in g_store /\ k \notin g_store
           /\ Outside \subseteq g_store
           /\ g_store \subseteq {MovedKey(k) : k \in UnderCall} \cup Outside \cup {TargetKey}

\* C29: rmdir on a key prefix P deletes only the objects whose key lies under
\* P/: an object whose key merely starts with the characters of P is still
\* present afterwards, and the bucket is deleted only when P is a bucket path.
C29_RmdirOnlyUnderPrefix ==
    (InBucket("rmdir") /\ o_ret.err = "none" /\ CallKey # <<>>)
        => /\ o_before.store \ g_store \subseteq UnderCall
           /\ o_bucket

\* C30: constructing a path from any finite sequence of segments returns a
\* path: normalization never raises, also when the input holds more `..`
\* segments than ordinary segments before them.
C30_ConstructionNeverRaises == p_pc # "new" => p_path.err = "none"

\* a glob call whose pattern has no `**`, and the number of its components
FixedDepthCall ==
    /\ g_pc \in {"fetch", "page", "done"}
    /\ g_in.api = "glob"
    /\ ~HasDoubleStar(g_in.pattern)
PatternComponents == Len(ParsePath(g_in.pattern).parts)
\* the segments of a yielded path below its bucket
KeySegs(path) == Tail(path)

\* C23: for a pattern without `**` that has s components, every path glob
\* yields lies exactly s levels below the base, for bases of any key depth.
C23_ExactDepth ==
    FixedDepthCall
        => \A i \in 1..Len(g_out) :
               /\ IsPrefixOf(Base, KeySegs(g_out[i]))
               /\ Len(KeySegs(g_out[i])) = Len(Base) + PatternComponents

\* the components of the match suffix, the pattern left by _prefix_splitter
SuffixComponents == ParsePath(g_sel.pattern).parts
WildcardAbove ==
    \E i \in 1..(Len(SuffixComponents) - 1) : IsWildcardPattern(SuffixComponents[i])

\* C24: the scan enumerates full keys whenever the match suffix contains `**`
\* or a non-final component of it contains `*`, `?` or a bracket class, and
\* uses the delimiter-grouped scan only otherwise; so a pattern such as `?/b`
\* finds the matches two levels below the base.
C24_FullKeysForWildcards ==
    g_pc \in {"fetch", "page", "done"}
        => /\ g_sel.full_keys = (HasDoubleStar(g_sel.pattern) \/ WildcardAbove)
           /\ (g_pc = "done" /\ g_in.api = "glob" /\ g_in.pattern = <<"?", Sep, "b">>)
                  => \A l \in Levels(g_store, Base) :
                         (Len(l) = Len(Base) + 2 /\ PathMatch(SubSeq(l, Len(Base) + 1, Len(l)),
                                                              SuffixComponents))
                             => PathOfLevel(l) \in Out

\* ------------------------------------------------------------------------
\* SpecDeep: one glob call of the single-file module (src/s3path.py), whose
\* selector remembers the levels it has seen in a _DeepDirCache
\* ------------------------------------------------------------------------

\* the loop of the single-file _prefix_splitter: the leading components
\* without a wildcard, joined by the separator
RECURSIVE JoinedLiteralPrefix(_, _)
JoinedLiteralPrefix(parts, i) ==
    IF i > Len(parts) \/ IsWildcardPattern(parts[i]) THEN <<>>
    ELSE LET rest == JoinedLiteralPrefix(parts, i + 1)
         IN  IF i < Len(parts) /\ ~IsWildcardPattern(parts[i + 1])
             THEN parts[i] \o <<Sep>> \o rest
             ELSE parts[i]

\* the single-file _Selector._prefix_splitter: <<prefix, pattern>>
OldPrefixSplitter(key, pattern) ==
    LET literal == JoinedLiteralPrefix(ParsePath(pattern).parts, 1)
        folder == IF literal \o <<Sep>> = pattern THEN literal \o <<Sep>> ELSE literal
        prefix == IF key # <<>> THEN key \o <<Sep>> \o folder ELSE folder
    IN  <<prefix,
          IF StartsWith(pattern, prefix) THEN SubSeq(pattern, Len(prefix) + 1, Len(pattern))
          ELSE pattern>>

\* `for index, part in enumerate(reversed(pattern_parts), 1)`, left at the
\* first part without a wildcard
RECURSIVE FirstLiteralFromEnd(_, _)
FirstLiteralFromEnd(parts, index) ==
    IF index >= Len(parts) \/ ~IsWildcardPattern(parts[Len(parts) + 1 - index]) THEN index
    ELSE FirstLiteralFromEnd(parts, index + 1)

\* the single-file _Selector._calculate_pattern_level
OldCalculatePatternLevel(prefix, pattern) ==
    IF HasDoubleStar(pattern) THEN [bounded |-> FALSE, n |-> 0]
    ELSE LET parts == ParsePath(IF prefix # <<>> THEN prefix \o <<Sep>> \o pattern
                                ELSE pattern).parts
         IN  [bounded |-> TRUE, n |-> IF parts = <<>> THEN 0 ELSE FirstLiteralFromEnd(parts, 1)]

\* the loop of _S3Flavour.compile_pattern_parts
RECURSIVE OldCompileParts(_, _)
OldCompileParts(parts, i) ==
    IF i > Len(parts) THEN <<<<"seps", "">>>>
    ELSE (IF HasDoubleStar(parts[i])
          THEN <<<<"seps", "">>>> \o ReplaceDoubleStar(parts[i])
          ELSE <<<<"lit", Sep>>>> \o FnmatchTranslate(parts[i]))
         \o OldCompileParts(parts, i + 1)

\* the single-file _Selector.__init__; _calculate_full_or_just_folder is the
\* function of the package
OldSelector(key, bucket, pattern) ==
    LET split == OldPrefixSplitter(key, pattern)
    IN  [prefix    |-> split[1],
         pattern   |-> split[2],
         full_keys |-> CalculateFullOrJustFolder(split[2]),
         level     |-> OldCalculatePatternLevel(split[1], split[2]),
         regex     |-> OldCompileParts(ParsePath(Join(<<<<>>, bucket, split[1], split[2]>>)).parts, 1)]

\* _DeepDirCache: every dictionary of the tree holds at most one entry, as
\* add clears a dictionary before it puts a second part in; the tree is the
\* chain of its parts, and d is the depth of the dictionary `tree` names
EmptyDeepDirCache == [tree |-> <<>>, queue |-> <<>>, err |-> FALSE]

\* the loop of _DeepDirCache.add: a part that is in the dictionary is
\* entered; any other part replaces what the dictionary holds, after
\* _deep_count entries have been popped from the queue (IndexError when the
\* queue is shorter), and is not entered
RECURSIVE DeepDirCacheParts(_, _, _)
DeepDirCacheParts(parts, i, st) ==
    IF st.err \/ i > Len(parts) THEN st
    ELSE IF Len(st.tree) > st.d /\ st.tree[st.d + 1] = parts[i]
         THEN DeepDirCacheParts(parts, i + 1, [st EXCEPT !.d = @ + 1])
    ELSE LET deep_count == Len(st.tree) - st.d
         IN  IF deep_count > Len(st.queue) THEN [st EXCEPT !.err = TRUE]
             ELSE DeepDirCacheParts(parts, i + 1,
                      [st EXCEPT !.tree = SubSeq(@, 1, st.d) \o <<parts[i]>>,
                                 !.queue = SubSeq(@, 1, Len(@) - deep_count)])

\* _DeepDirCache.add
DeepDirCacheAdd(dirs, directory_parts, directory) ==
    LET st == DeepDirCacheParts(directory_parts, 1,
                                [d |-> 0, tree |-> dirs.tree, queue |-> dirs.queue,
                                 err |-> FALSE])
    IN  [tree |-> st.tree,
         queue |-> IF st.err THEN st.queue ELSE Append(st.queue, directory),
         err |-> st.err]

\* _DeepDirCache.in_cache
InCache(dirs, directory) == Has(dirs.queue, directory)

\* the inner loop of the single-file _deep_cached_dir_scan for one key, from
\* index on: the cache and the targets yielded
RECURSIVE DeepLevels(_, _, _, _, _)
DeepLevels(sel, key_parts, index, key_parts_count, st) ==
    IF st.cache.err \/ index > key_parts_count THEN st
    ELSE IF sel.level.bounded /\ sel.level.n # 0 /\ sel.level.n < index THEN st
    ELSE LET target_path_parts == Take(key_parts, index)
             target_path == Join(target_path_parts)
         IN  IF InCache(st.cache, target_path)
             THEN DeepLevels(sel, key_parts, index + 1, key_parts_count, st)
             ELSE DeepLevels(sel, key_parts, index + 1, key_parts_count,
                      [cache |-> DeepDirCacheAdd(st.cache, target_path_parts, target_path),
                       out |-> IF ~sel.level.bounded \/ sel.level.n = index
                               THEN Append(st.out, target_path) ELSE st.out])

\* the single-file _deep_cached_dir_scan for one key
DeepCachedDirScan(sel, key, dirs) ==
    LET prefix_sep_count == Count(sel.prefix, Sep)
        key_sep_count == Count(key, Sep) + 1
    IN  DeepLevels(sel, RSplit(key, key_sep_count - prefix_sep_count), prefix_sep_count,
                   Len(SegsOf(key)), [cache |-> dirs, out |-> <<>>])

\* the single-file _Selector.select for the targets of one key
OldSelect(sel, bucket, targets) ==
    LET hits == SelectSeq(targets, LAMBDA t : FullMatch(sel.regex, Join(<<<<>>, bucket, t>>)))
    IN  [i \in 1..Len(hits) |-> S3PathOf(Join(<<<<>>, bucket, hits[i]>>))]

DeepUniverse ==
    {Join(<<SegA>>), Join(<<SegB>>), Join(<<SegA, SegA>>), Join(<<SegA, SegB>>),
     Join(<<SegA, SegB, SegA>>)}
DeepPatterns == {<<"*">>, <<"*", "*">>, <<"*", Sep, "*">>, <<"a", Sep, "*">>}

\* S3Path._glob with a pattern that passes its checks, up to the first
\* request; the listing does not depend on the configuration, which is left
\* as it is
DeepCall ==
    /\ g_pc = "idle"
    /\ \E key \in BaseKeys, pattern \in DeepPatterns :
           /\ g_in' = [api |-> "glob", key |-> key, pattern |-> pattern]
           /\ g_sel' = OldSelector(key, Bucket, pattern)
           /\ g_rest' = ListEntries(g_store, g_sel'.prefix, g_sel'.full_keys)
    /\ g_pc' = "fetch"
    /\ UNCHANGED <<g_store, g_err, g_page, g_more, g_cache, g_out, g_lists, cfgVars, thrVars,
                    extraVars>>

\* the next key of the page goes through the single-file
\* _deep_cached_dir_scan and select; an IndexError of the cache ends the call
DeepNextKey ==
    /\ g_pc = "page"
    /\ \E e \in g_page :
           /\ e[1] = "folder" => \A f \in g_page : f[1] = "folder"
           /\ LET st == DeepCachedDirScan(g_sel, e[2], g_cache)
              IN  /\ g_out' = g_out \o OldSelect(g_sel, Bucket, st.out)
                  /\ g_cache' = st.cache
                  /\ g_page' = g_page \ {e}
                  /\ g_err' = IF st.cache.err THEN "IndexError" ELSE g_err
                  /\ g_pc' = IF st.cache.err THEN "raised" ELSE AfterEntry(g_page', g_more)
                  /\ l_keys' = Append(l_keys, e)
                  /\ l_token' = IF g_page' = {}
                                THEN NextContinuationToken(l_token, g_more, g_rest)
                                ELSE l_token
    /\ UNCHANGED <<g_store, g_in, g_sel, g_rest, g_more, g_lists, cfgVars, thrVars, pathVars,
                    opVars, l_log, callVars>>

DeepInit ==
    /\ CfgInit
    /\ ThrInit
    /\ ExtraIdle
    /\ g_pc = "idle"
    /\ g_in = [api |-> "none"]
    /\ g_err = "none"
    /\ g_sel = [prefix |-> <<>>]
    /\ g_rest = {}
    /\ g_page = {}
    /\ g_more = FALSE
    /\ g_cache = EmptyDeepDirCache
    /\ g_out = <<>>
    /\ g_lists = 0
    /\ g_store \in {S \in SUBSET DeepUniverse : Cardinality(S) <= DeepKeys}

DeepNext == DeepCall \/ FetchPage \/ DeepNextKey

SpecDeep == DeepInit /\ [][DeepNext]_vars

\* C25: with the tree-and-queue _DeepDirCache no level is yielded twice in
\* one glob call, for any order in which the remote returns the keys.
C25_NoLevelTwice ==
    g_pc # "idle" => \A i, j \in 1..Len(g_out) : i # j => g_out[i] # g_out[j]

\* ------------------------------------------------------------------------
\* SpecList: one listing, iterdir or glob, page by page, the consumer
\* taking every item (list(...)), so that each step of the generators is
\* taken in the end. SpecStream: one glob whose consumer may stop at any
\* item it is given
\* ------------------------------------------------------------------------

\* the consumer stops at one of the paths glob yields for the next key; the
\* generator stays suspended at that yield
GlobClose ==
    /\ g_pc = "page"
    /\ \E e \in g_page :
           /\ e[1] = "folder" => \A f \in g_page : f[1] = "folder"
           /\ \E n \in 1..Len(Yielded(g_sel, Bucket, KeyTargets(g_sel, e[2]), g_cache)) :
                  g_out' = g_out \o SubSeq(Yielded(g_sel, Bucket, KeyTargets(g_sel, e[2]), g_cache),
                                           1, n)
    /\ g_pc' = "closed"
    /\ UNCHANGED <<g_store, g_in, g_err, g_sel, g_rest, g_page, g_more, g_cache, g_lists,
                    cfgVars, thrVars, extraVars>>

ListNext == OpIterdir \/ IterdirFetch \/ IterdirEntry \/ OpGlob \/ FetchPage \/ NextKey

\* What the steps of a running generator do to the count of requests and to
\* the page in hand: FetchPage and IterdirFetch send one request, NextKey and
\* IterdirEntry take one entry off the page. Fairness is stated on these
\* effects: list(...) keeps asking for the next item, so the request that
\* is due is sent in the end and the entry that is due is taken in the end.
GlobRequest == g_pc = "fetch" /\ Len(l_log) < MaxPages /\ g_lists' = g_lists + 1
GlobTakesKey == g_pc = "page" /\ \E e \in g_page : g_page' = g_page \ {e}
ScanRequest == o_pc = "fetch" /\ Len(l_log) < MaxPages /\ o_remote' = o_remote + 1
ScanTakesEntry == o_pc = "page" /\ \E e \in o_page : o_page' = o_page \ {e}

SpecList ==
    /\ OpsInit
    /\ [][ListNext]_vars
    /\ WF_g_lists(GlobRequest)
    /\ WF_g_page(GlobTakesKey)
    /\ WF_o_remote(ScanRequest)
    /\ WF_o_page(ScanTakesEntry)

\* a bucket of up to DeepKeys keys, so that a page can be followed by more
StreamInit ==
    /\ CfgInit
    /\ ThrInit
    /\ GlobIdle
    /\ ExtraIdle
    /\ g_store \in {S \in SUBSET DeepUniverse : Cardinality(S) <= DeepKeys}

StreamNext == OpGlob \/ FetchPage \/ NextKey \/ GlobClose

SpecStream == StreamInit /\ [][StreamNext]_vars

\* a glob whose pattern passed the checks, and an iterdir that did not fail
GlobListing == g_pc \in {"fetch", "page", "done"}
IterListing ==
    \/ o_pc \in {"fetch", "page"}
    \/ o_pc = "done" /\ o_call.op = "iterdir" /\ o_ret.err = "none"
Exhausted == g_pc = "done" \/ (o_pc = "done" /\ IterListing)

\* the entries the remote holds for the listing's request, and the ones the
\* listing is to yield: all but the Contents item of the scanned folder
AllEntries ==
    IF GlobListing THEN ListEntries(g_store, g_sel.prefix, g_sel.full_keys)
    ELSE IF BucketOf(CallPath) = <<>> THEN (IF o_bucket THEN {<<"bucket", Bucket>>} ELSE {})
    ELSE ListEntries(g_store, GeneratePrefix(CallPath), FALSE)
ToYield ==
    IF GlobListing THEN AllEntries
    ELSE {e \in AllEntries : ~SkipEntry(e, GeneratePrefix(CallPath))}

\* the entries of the first k pages
Served(k) == UNION {l_log[i].page : i \in 1..k}

PagesOnce ==
    (GlobListing \/ IterListing)
        => /\ \A k \in 1..Len(l_log) :
                  /\ l_log[k].sent = IF k = 1 THEN NoToken
                                     ELSE [set |-> TRUE, rest |-> AllEntries \ Served(k - 1)]
                  /\ l_log[k].page \subseteq AllEntries \ Served(k - 1)
                  /\ k < Len(l_log) => /\ l_log[k].page # {}
                                       /\ l_log[k].page \cap ToYield \subseteq Range(l_keys)
           /\ \A i, j \in 1..Len(l_keys) : i # j => l_keys[i] # l_keys[j]
           /\ Range(l_keys) \subseteq Served(Len(l_log))
           /\ Exhausted => Served(Len(l_log)) = AllEntries /\ Range(l_keys) = ToYield

\* C26: a paginated listing (directory scan and glob key iteration) requests
\* pages until the remote reports no further page: it terminates, fetches
\* each page once, passing the continuation token of the page before, and
\* yields every entry of every page.
C26_PagesToTheEnd ==
    /\ []PagesOnce
    /\ (g_pc \in {"fetch", "page"} \/ o_pc \in {"fetch", "page"}) ~> (g_pc = "done" \/ o_pc = "done")

\* a listing of two pages or more has ended
C26_Witness == (GlobListing \/ IterListing) /\ Exhausted /\ Len(l_log) >= 2 /\ l_log[2].sent.set

\* the candidate levels of an entry that the pattern matches, as paths
Candidates(e) ==
    {S3PathOf(<<Sep>> \o Bucket \o t) :
        t \in {x \in Range(KeyTargets(g_sel, e[2])) : FullMatch(g_sel.regex, <<Sep>> \o Bucket \o x)}}

\* every candidate of every page but the last requested has been yielded
OfferedBeforeNextPage ==
    g_pc \in {"fetch", "page", "done", "closed"}
        => \A k \in 1..(Len(l_log) - 1) : \A e \in l_log[k].page : Candidates(e) \subseteq Out

\* C27: glob streams: the request for page k+1 is issued only after every
\* candidate level derived from the keys of page k has been offered to the
\* consumer, and once the consumer has stopped no further page is requested.
C27_GlobStreams ==
    /\ []OfferedBeforeNextPage
    /\ [][g_pc = "closed" => l_log' = l_log /\ g_lists' = g_lists]_vars

\* the consumer stopped at an item of the second page while more pages were
\* to come
C27_Witness == g_pc = "closed" /\ g_more /\ Len(l_log) = 2 /\ g_lists = 2 /\ g_out # <<>>

\* ------------------------------------------------------------------------
\* SpecCall: the remote calls of owner, mkdir, rmdir and rename on a path
\* that has parameters registered
\* ------------------------------------------------------------------------
\* dict.update(other)
DictUpdate(d, other) ==
    [x \in (DOMAIN d) \cup (DOMAIN other) |-> IF x \in DOMAIN other THEN other[x] ELSE d[x]]

\* {key: value for key, value in config.items() if key in names}
DictFilter(config, names) == [x \in (DOMAIN config) \cap names |-> config[x]]

DocLine(start, text) == [start |-> start, text |-> text]

\* The documentation of the remote operations, a line for each parameter
\* they accept (boto3; the names below are the ones the calls and the
\* registered parameters of SpecCall can bear).
Docs(action) ==
    CASE action = "list_objects_v2" ->
            <<DocLine("", "Returns some or all of the objects in a bucket"),
              DocLine(":param ", "Bucket"), DocLine(":param ", "Prefix"),
              DocLine(":param ", "FetchOwner"), DocLine(":param ", "RequestPayer")>>
      [] action = "objects.filter" ->
            <<DocLine(":param ", "Prefix"), DocLine(":param ", "RequestPayer")>>
      [] action = "create_bucket" ->
            <<DocLine(":param ", "Bucket"), DocLine(":param ", "ACL")>>
      [] action = "delete" ->
            <<DocLine("", "Removes an object from a bucket"),
              DocLine(":param ", "VersionId"), DocLine(":param ", "RequestPayer")>>
      [] action = "copy" ->
            <<DocLine(":param ", "CopySource"), DocLine(":param ", "Key"),
              DocLine(":param ", "ExtraArgs")>>

\* boto3.s3.transfer.TransferManager.ALLOWED_COPY_ARGS
AllowedCopyArgs == {"ContentType", "RequestPayer", "ACL"}

GetActionArguments(action) ==
    {line.text : line \in {l \in Range(Docs(action)) : l.start = ":param "}}

\* config is None or <<"dict", d>>; kwargs is a dict, empty when not given
UpdateKwargsWithConfig(boto3_method, config, kwargs) ==
    IF config[1] # "None"
    THEN DictUpdate(kwargs, DictFilter(config[2], GetActionArguments(boto3_method)))
    ELSE kwargs

RemoteCall(op, own, params) == [op |-> op, own |-> own, params |-> params]

Boto3MethodWithParameters(boto3_method, config, kwargs) ==
    RemoteCall(boto3_method, kwargs, UpdateKwargsWithConfig(boto3_method, config, kwargs))

\* args are the positional parameters, by the names the operation gives them
Boto3MethodWithExtraargs(boto3_method, config, args, allowed_extra_args) ==
    LET extra_args == IF config[1] # "None"
                      THEN DictUpdate(EmptyMap, DictFilter(config[2], allowed_extra_args))
                      ELSE EmptyMap
    IN  RemoteCall(boto3_method, args,
                   DictUpdate(args, [x \in {"ExtraArgs"} |-> extra_args]))

\* the parameters one can register: names the operations accept or not
ParamNames == {"Prefix", "RequestPayer", "ContentType", "Nope"}
ParamValues == {"v1", "v2"}
Configs == UNION {[S -> ParamValues] : S \in SUBSET ParamNames}

Own(names) == [x \in names |-> "own"]

Registered == <<"dict", c_config>>

CallFrame == UNCHANGED <<c_config, cfgVars, thrVars, globVars, pathVars, opVars, listVars>>

\* accessor.owner
CallOwner ==
    /\ c_pc = "idle"
    /\ c_pc' = "owner"
    /\ c_sent' = <<Boto3MethodWithParameters("list_objects_v2", Registered,
                                              Own({"Bucket", "Prefix", "FetchOwner"}))>>
    /\ CallFrame

\* accessor.mkdir
CallMkdir ==
    /\ c_pc = "idle"
    /\ c_pc' = "mkdir"
    /\ c_sent' = <<Boto3MethodWithParameters("create_bucket", Registered, Own({"Bucket"}))>>
    /\ CallFrame

\* accessor.rmdir of a directory that holds one key
CallRmdir ==
    /\ c_pc = "idle"
    /\ c_pc' = "rmdir"
    /\ c_sent' = <<RemoteCall("objects.filter", Own({"Prefix"}), Own({"Prefix"})),
                   Boto3MethodWithParameters("delete", Registered, EmptyMap)>>
    /\ CallFrame

\* accessor.rename of a key that is not a directory (is_dir, then copy and
\* delete)
CallRename ==
    /\ c_pc = "idle"
    /\ c_pc' = "rename"
    /\ c_sent' = <<Boto3MethodWithParameters("objects.filter", Registered, Own({"Prefix"})),
                   Boto3MethodWithExtraargs("copy", Registered, Own({"CopySource", "Key"}),
                                            AllowedCopyArgs),
                   Boto3MethodWithParameters("delete", None, EmptyMap)>>
    /\ CallFrame

CallInit ==
    /\ CfgInit
    /\ ThrInit
    /\ GlobIdle
    /\ g_store = {}
    /\ PathIdle
    /\ OpIdle
    /\ ListIdle
    /\ c_config \in Configs
    /\ c_pc = "idle"
    /\ c_sent = <<>>

CallNext == CallOwner \/ CallMkdir \/ CallRmdir \/ CallRename

SpecCall == CallInit /\ [][CallNext]_vars

\* the registered parameters whose names the operation of a call accepts
AcceptedOverrides(call) == (DOMAIN c_config) \cap GetActionArguments(call.op)

\* what is sent is the call's own parameters plus the accepted overrides
SentAsRegistered(call) ==
    /\ DOMAIN call.params = (DOMAIN call.own) \cup AcceptedOverrides(call)
    /\ \A n \in AcceptedOverrides(call) \ DOMAIN call.own : call.params[n] = c_config[n]
    /\ \A n \in (DOMAIN call.own) \ AcceptedOverrides(call) : call.params[n] = call.own[n]
    /\ \A n \in (DOMAIN call.own) \cap AcceptedOverrides(call) :
            call.params[n] \in {call.own[n], c_config[n]}

\* C28: for each remote call the parameters sent are the operation's own
\* parameters plus exactly those registered overrides whose names the target
\* operation accepts; overrides with any other name are dropped.
C28_OverridesFiltered ==
    \A i \in 1..Len(c_sent) : SentAsRegistered(c_sent[i])

\* the calls that go through _boto3_method_with_parameters with the config
FilteredWhereConfigIsPassed ==
    \A i \in 1..Len(c_sent) :
        (c_pc \in {"owner", "mkdir"} \/ (c_pc = "rmdir" /\ i = 2) \/ (c_pc = "rename" /\ i = 1))
            => SentAsRegistered(c_sent[i])

====
